---- MODULE Spec2Model ----
(***************************************************************************)
(* Splay tree with integer keys (splay-trees_int-keys.c/.h).               *)
(*                                                                         *)
(* The heap is a fixed set of node slots; a pointer is a slot number and   *)
(* NULL is 0.  Every library call is one atomic step (the library is       *)
(* single threaded).  The internal subroutines are operators that map a    *)
(* heap to the heap they leave behind, in the order of their statements.   *)
(***************************************************************************)
EXTENDS Integers, Sequences, FiniteSets, Bags, TLC

VARIABLES heap, alloc, tree, last, failed, hung, readers, wraps, writer

vars == <<heap, alloc, tree, last, failed, hung, readers, wraps, writer>>

(* ----------------------------- bounds --------------------------------- *)
\* Number of node slots of the modelled heap.
NumSlots == 4
\* Clients that build deep trees (up to NumSlots nodes) draw their keys from
\* 1..MaxKey and store one and the same payload with each.
MaxKey == 2
\* Clients that vary the payloads hold at most MaxNodes nodes at a time and
\* insert one of the first MaxEntry pairs of the listing
\* (1, 1), .., (1, PerKey), (2, 1), .., (2, PerKey), (3, 1), ..
MaxNodes == 3
MaxEntry == 4
PerKey == 2
\* The capacity a client may write into the public field max_nodes.
CapLimit == 2
\* Number of allocations that may fail in one run.
MaxNoMem == 1
\* The largest payload of the client that numbers its inserts.
MaxStamp == 4

(* ------------------------ program constants --------------------------- *)
NULL == 0
DELETE_FREE_DATA == 1
SEARCH_SPLAY == 2
SEARCH_DATA == 4
SEARCH_KEYS == 8
SEARCH_NODES == 16
\* sizeof(void *) / sizeof(int) on x86_64
PtrInts == 2
DFS_PRE_ORDER == 32
DFS_IN_ORDER == 64
DFS_POST_ORDER == 128
BFS_LEFT_FIRST == 256
BFS_RIGHT_FIRST == 512
\* ULONG_MAX, scaled to the integer range of the checker; it is only ever
\* compared for equality with nodes_count, which stays far below it.
ULONG_MAX == 2147483647

Slots == 1..NumSlots
Keys == 1..MaxKey

\* The key and the payload of the e-th pair of the listing.
EntryKey(e) == (e + PerKey - 1) \div PerKey
EntryData(e) == ((e - 1) % PerKey) + 1
Entries == 1..MaxEntry
EntryKeys == {EntryKey(e) : e \in Entries}
\* The payload of the clients that build deep trees.
DeepData == EntryData(1)

\* opts & bit, for a single-bit mask.
HasBit(opts, bit) == opts >= 0 /\ (opts \div bit) % 2 = 1

INT_MAX == 2147483647
INT_MIN == -2147483647 - 1

\* The signed 32-bit difference a - b: the mathematical difference where it
\* fits.  Where it does not, the subtraction overflows and what it gives is
\* not defined: a build that wraps (wraps = TRUE) gives the difference
\* wrapped by 2^32, a build whose compiler takes the overflow not to happen
\* tests the sign of the mathematical difference, which is modelled by the
\* nearest int.  (Written so that no intermediate value leaves the 32-bit
\* range.)
Sub32(a, b) ==
    IF b >= 0 /\ a < INT_MIN + b
    THEN IF wraps THEN (a - INT_MIN) + (INT_MAX - b) + 1 ELSE INT_MIN
    ELSE IF b < 0 /\ a > INT_MAX + b
    THEN IF wraps THEN (a - INT_MAX) + (INT_MIN - b) - 1 ELSE INT_MAX
    ELSE a - b

\* SplayIntNode
SplayIntNode == [_father : Slots \cup {NULL}, _left_son : Slots \cup {NULL},
                 _right_son : Slots \cup {NULL}, _key : Int, _data : Int]

\* The content of a slot that is not allocated.
FreeSlot == [_father |-> NULL, _left_son |-> NULL, _right_son |-> NULL,
             _key |-> 0, _data |-> NULL]

(* --------------------- internal library subroutines ------------------- *)
_spli_create_node(h, new_node, new_key, new_data) ==
    IF new_node = NULL THEN h
    ELSE [h EXCEPT ![new_node] = [_father |-> NULL, _left_son |-> NULL,
                                  _right_son |-> NULL, _key |-> new_key,
                                  _data |-> new_data]]

_spli_insert_left_subtree(h, father, new_son) ==
    LET h1 == IF new_son # NULL THEN [h EXCEPT ![new_son]._father = father]
              ELSE h
    IN  [h1 EXCEPT ![father]._left_son = new_son]

_spli_insert_right_subtree(h, father, new_son) ==
    LET h1 == IF new_son # NULL THEN [h EXCEPT ![new_son]._father = father]
              ELSE h
    IN  [h1 EXCEPT ![father]._right_son = new_son]

\* Mutant: the cut that leaves the son pointing at its former father.
Mut_cut_left_subtree_KeepsFather(h, father) ==
    LET son == h[father]._left_son
    IN  IF son = NULL THEN [h |-> h, ret |-> NULL]
        ELSE [h |-> [h EXCEPT ![father]._left_son = NULL], ret |-> son]

\* Both cut routines give the heap left behind and the son returned.
_spli_cut_left_subtree(h, father) ==
    LET son == h[father]._left_son
    IN  IF son = NULL THEN [h |-> h, ret |-> NULL]
        ELSE [h |-> [h EXCEPT ![son]._father = NULL,
                              ![father]._left_son = NULL],
              ret |-> son]

_spli_cut_right_subtree(h, father) ==
    LET son == h[father]._right_son
    IN  IF son = NULL THEN [h |-> h, ret |-> NULL]
        ELSE [h |-> [h EXCEPT ![son]._father = NULL,
                              ![father]._right_son = NULL],
              ret |-> son]

RECURSIVE _spli_max_key_son(_, _)

\* Mutant: the search of the largest key that does not descend.
Mut_max_key_son_NoDescent(h, node) == node

_spli_max_key_son(h, node) ==
    IF h[node]._right_son # NULL THEN _spli_max_key_son(h, h[node]._right_son)
    ELSE node

\* Mutant: the descent of the search with the two directions exchanged.
RECURSIVE Mut_SearchLoop_Swapped(_, _, _)
Mut_SearchLoop_Swapped(h, curr, key) ==
    IF curr = NULL THEN NULL
    ELSE IF Sub32(h[curr]._key, key) > 0
    THEN Mut_SearchLoop_Swapped(h, h[curr]._right_son, key)
    ELSE IF Sub32(h[curr]._key, key) < 0
    THEN Mut_SearchLoop_Swapped(h, h[curr]._left_son, key)
    ELSE curr

\* The descent loop of _spli_search_node, from curr on.
RECURSIVE SearchLoop(_, _, _)
SearchLoop(h, curr, key) ==
    IF curr = NULL THEN NULL
    ELSE LET comp == Sub32(h[curr]._key, key)
         IN  IF comp > 0 THEN SearchLoop(h, h[curr]._left_son, key)
             ELSE IF comp < 0 THEN SearchLoop(h, h[curr]._right_son, key)
             ELSE curr

_spli_search_node(h, t, key) ==
    IF t._root = NULL THEN NULL ELSE SearchLoop(h, t._root, key)

_spli_swap_info(h, node1, node2) ==
    LET key1 == h[node1]._key
        data1 == h[node1]._data
        key2 == h[node2]._key
        data2 == h[node2]._data
    IN  [h EXCEPT ![node1]._key = key2, ![node2]._key = key1,
                  ![node1]._data = data2, ![node2]._data = data1]

\* Mutant: the right rotation without the exchange of contents.
Mut_right_rotation_NoSwap(h, node) ==
    LET left_son == h[node]._left_son
        c1 == _spli_cut_right_subtree(h, node)
        c2 == _spli_cut_left_subtree(c1.h, node)
        c3 == _spli_cut_left_subtree(c2.h, left_son)
        c4 == _spli_cut_right_subtree(c3.h, left_son)
        h5 == _spli_insert_right_subtree(c4.h, c2.ret, c1.ret)
        h6 == _spli_insert_left_subtree(h5, c2.ret, c4.ret)
        h7 == _spli_insert_right_subtree(h6, node, c2.ret)
    IN  _spli_insert_left_subtree(h7, node, c3.ret)

_spli_right_rotation(h, node) ==
    LET left_son == h[node]._left_son
        h0 == _spli_swap_info(h, node, left_son)
        c1 == _spli_cut_right_subtree(h0, node)
        r_tree == c1.ret
        c2 == _spli_cut_left_subtree(c1.h, node)
        l_tree == c2.ret
        c3 == _spli_cut_left_subtree(c2.h, left_son)
        l_tree_l == c3.ret
        c4 == _spli_cut_right_subtree(c3.h, left_son)
        l_tree_r == c4.ret
        h5 == _spli_insert_right_subtree(c4.h, l_tree, r_tree)
        h6 == _spli_insert_left_subtree(h5, l_tree, l_tree_r)
        h7 == _spli_insert_right_subtree(h6, node, l_tree)
    IN  _spli_insert_left_subtree(h7, node, l_tree_l)

\* Mutant: the left rotation without the exchange of contents.
Mut_left_rotation_NoSwap(h, node) ==
    LET right_son == h[node]._right_son
        c1 == _spli_cut_right_subtree(h, node)
        c2 == _spli_cut_left_subtree(c1.h, node)
        c3 == _spli_cut_left_subtree(c2.h, right_son)
        c4 == _spli_cut_right_subtree(c3.h, right_son)
        h5 == _spli_insert_left_subtree(c4.h, c1.ret, c2.ret)
        h6 == _spli_insert_right_subtree(h5, c1.ret, c3.ret)
        h7 == _spli_insert_left_subtree(h6, node, c1.ret)
    IN  _spli_insert_right_subtree(h7, node, c4.ret)

_spli_left_rotation(h, node) ==
    LET right_son == h[node]._right_son
        h0 == _spli_swap_info(h, node, right_son)
        c1 == _spli_cut_right_subtree(h0, node)
        r_tree == c1.ret
        c2 == _spli_cut_left_subtree(c1.h, node)
        l_tree == c2.ret
        c3 == _spli_cut_left_subtree(c2.h, right_son)
        r_tree_l == c3.ret
        c4 == _spli_cut_right_subtree(c3.h, right_son)
        r_tree_r == c4.ret
        h5 == _spli_insert_left_subtree(c4.h, r_tree, l_tree)
        h6 == _spli_insert_right_subtree(h5, r_tree, r_tree_l)
        h7 == _spli_insert_left_subtree(h6, node, r_tree)
    IN  _spli_insert_right_subtree(h7, node, r_tree_r)

\* The four grandparent cases of _spli_splay are consecutive ifs, each tested
\* on the heap as the previous ones left it.
\* Mutant: case 2 with one rotation only.
Mut_SplayCase2_OneRotation(h, node, father_node, grand_node) ==
    IF h[father_node]._left_son = node /\ h[grand_node]._left_son = father_node
    THEN _spli_right_rotation(h, grand_node)
    ELSE h

\* Case 2: both nodes are left sons.
SplayCase2(h, node, father_node, grand_node) ==
    IF h[father_node]._left_son = node /\ h[grand_node]._left_son = father_node
    THEN _spli_right_rotation(_spli_right_rotation(h, grand_node), grand_node)
    ELSE h

\* Case 3: both nodes are right sons.
SplayCase3(h, node, father_node, grand_node) ==
    IF h[father_node]._right_son = node
       /\ h[grand_node]._right_son = father_node
    THEN _spli_left_rotation(_spli_left_rotation(h, grand_node), grand_node)
    ELSE h

\* Case 4: father is right son while this is a left son.
SplayCase4(h, node, father_node, grand_node) ==
    IF h[father_node]._left_son = node /\ h[grand_node]._right_son = father_node
    THEN _spli_left_rotation(_spli_right_rotation(h, father_node), grand_node)
    ELSE h

\* Case 5: father is left son while this is a right son.
SplayCase5(h, node, father_node, grand_node) ==
    IF h[father_node]._right_son = node /\ h[grand_node]._left_son = father_node
    THEN _spli_right_rotation(_spli_left_rotation(h, father_node), grand_node)
    ELSE h

\* One splay step; gives the heap left behind and the slot returned.
_spli_splay(h, node) ==
    IF node = NULL THEN [h |-> h, ret |-> NULL]
    ELSE IF h[node]._father = NULL THEN [h |-> h, ret |-> node]
    ELSE
      LET father_node == h[node]._father
          grand_node == h[father_node]._father
      IN  IF grand_node = NULL
          THEN [h |-> IF h[father_node]._left_son = node
                      THEN _spli_right_rotation(h, father_node)
                      ELSE _spli_left_rotation(h, father_node),
                ret |-> father_node]
          ELSE [h |-> SplayCase5(
                        SplayCase4(
                          SplayCase3(
                            SplayCase2(h, node, father_node, grand_node),
                            node, father_node, grand_node),
                          node, father_node, grand_node),
                        node, father_node, grand_node),
                ret |-> grand_node]

\* while (top != curr) curr = _spli_splay(curr);
\* gives the heap left behind, the last curr and whether the loop fails to
\* end.  A step s that returns the slot it was given and leaves the heap as
\* it was repeats for ever: the loop does not end (diverged).
RECURSIVE SplayLoop(_, _, _)

\* Mutant: the loop that drops the slot _spli_splay returns, and so never
\* sees curr become top.
Mut_SplayLoopStep_DropsReturn(h, top, curr, s) ==
    [h |-> h, ret |-> curr, diverged |-> TRUE]

SplayLoopStep(h, top, curr, s) ==
    IF s.ret = curr /\ s.h = h
    THEN [h |-> h, ret |-> curr, diverged |-> TRUE]
    ELSE SplayLoop(s.h, top, s.ret)

SplayLoop(h, top, curr) ==
    IF top = curr THEN [h |-> h, ret |-> curr, diverged |-> FALSE]
    ELSE SplayLoopStep(h, top, curr, _spli_splay(h, curr))

\* Mutant: the join that forgets to attach the right subtree.
Mut_JoinAttach_DropRight(l, left_root, right_root) ==
    [h |-> l.h, ret |-> left_root, diverged |-> l.diverged]

\* The last two statements of _spli_join, l being the splay loop's outcome.
JoinAttach(l, left_root, right_root) ==
    [h |-> _spli_insert_right_subtree(l.h, left_root, right_root),
     ret |-> left_root, diverged |-> l.diverged]

_spli_join(h, left_root, right_root) ==
    IF left_root = NULL /\ right_root = NULL
    THEN [h |-> h, ret |-> NULL, diverged |-> FALSE]
    ELSE IF left_root = NULL
    THEN [h |-> h, ret |-> right_root, diverged |-> FALSE]
    ELSE IF right_root = NULL
    THEN [h |-> h, ret |-> left_root, diverged |-> FALSE]
    ELSE JoinAttach(
           SplayLoop(h, left_root, _spli_max_key_son(h, left_root)),
           left_root, right_root)

(* ----------------------------- user functions ------------------------- *)
\* The tree handle create_splay_int_tree returns.
create_splay_int_tree ==
    [_root |-> NULL, nodes_count |-> 0, max_nodes |-> ULONG_MAX]

\* The return statements of splay_int_search, l being the splay loop's
\* outcome (or the node found, when there is no splaying).
SearchReturn(l, opts) ==
    [h |-> l.h,
     ret |-> IF HasBit(opts, SEARCH_DATA) THEN l.h[l.ret]._data
             ELSE IF HasBit(opts, SEARCH_NODES) THEN l.ret
             ELSE NULL,
     diverged |-> l.diverged]

\* Mutant: the search that splays whatever the options say.
Mut_SearchFound_AlwaysSplay(h, t, searched_node, opts) ==
    IF searched_node = NULL
    THEN [h |-> h, ret |-> NULL, diverged |-> FALSE]
    ELSE SearchReturn(SplayLoop(h, t._root, searched_node), opts)

\* Mutant: the search that splays and then answers from the slot it had found,
\* not from the slot the content swaps have led to.
Mut_SearchFound_StaleNode(h, t, searched_node, opts) ==
    IF searched_node = NULL
    THEN [h |-> h, ret |-> NULL, diverged |-> FALSE]
    ELSE IF HasBit(opts, SEARCH_SPLAY)
    THEN SearchReturn([h |-> SplayLoop(h, t._root, searched_node).h,
                       ret |-> searched_node, diverged |-> FALSE], opts)
    ELSE SearchReturn([h |-> h, ret |-> searched_node, diverged |-> FALSE],
                      opts)

SearchFound(h, t, searched_node, opts) ==
    IF searched_node = NULL
    THEN [h |-> h, ret |-> NULL, diverged |-> FALSE]
    ELSE IF HasBit(opts, SEARCH_SPLAY)
    THEN SearchReturn(SplayLoop(h, t._root, searched_node), opts)
    ELSE SearchReturn([h |-> h, ret |-> searched_node, diverged |-> FALSE],
                      opts)

\* Gives the heap left behind and the pointer returned.
splay_int_search(h, t, key, opts) ==
    IF opts <= 0 THEN [h |-> h, ret |-> NULL, diverged |-> FALSE]
    ELSE SearchFound(h, t, _spli_search_node(h, t, key), opts)

\* Mutant: the delete that forgets to decrement nodes_count.
Mut_DeleteFree_NoDecrement(t, to_delete, opts, j, diverged) ==
    [h |-> j.h,
     t |-> [t EXCEPT !._root = j.ret],
     ret |-> 1,
     freed_node |-> to_delete,
     freed_data |-> IF HasBit(opts, DELETE_FREE_DATA)
                    THEN {j.h[to_delete]._data} ELSE {},
     diverged |-> diverged \/ j.diverged]

\* The end of splay_int_delete: j is the outcome of the join.
DeleteFree(t, to_delete, opts, j, diverged) ==
    [h |-> j.h,
     t |-> [t EXCEPT !._root = j.ret, !.nodes_count = t.nodes_count - 1],
     ret |-> 1,
     freed_node |-> to_delete,
     freed_data |-> IF HasBit(opts, DELETE_FREE_DATA)
                    THEN {j.h[to_delete]._data} ELSE {},
     diverged |-> diverged \/ j.diverged]

\* Mutant: the delete that passes the two subtrees to the join in the wrong
\* order.
Mut_DeleteJoin_Swapped(t, to_delete, opts, left_sub, c2, diverged) ==
    DeleteFree(t, to_delete, opts, _spli_join(c2.h, c2.ret, left_sub),
               diverged)

\* c2 is the outcome of cutting the right subtree.
DeleteJoin(t, to_delete, opts, left_sub, c2, diverged) ==
    DeleteFree(t, to_delete, opts, _spli_join(c2.h, left_sub, c2.ret),
               diverged)

\* c1 is the outcome of cutting the left subtree.
DeleteCutRight(t, to_delete, opts, c1, diverged) ==
    DeleteJoin(t, to_delete, opts, c1.ret,
               _spli_cut_right_subtree(c1.h, to_delete), diverged)

\* l is the outcome of splaying the target node.
DeleteCutLeft(t, opts, l) ==
    DeleteCutRight(t, l.ret, opts, _spli_cut_left_subtree(l.h, l.ret),
                   l.diverged)

\* Mutant: the delete that decrements nodes_count also when the key is not
\* found.
Mut_DeleteFound_CountsMiss(h, t, to_delete, opts) ==
    IF opts < 0 \/ to_delete = NULL
    THEN [h |-> h, t |-> [t EXCEPT !.nodes_count = t.nodes_count - 1],
          ret |-> 0, freed_node |-> NULL, freed_data |-> {},
          diverged |-> FALSE]
    ELSE DeleteCutLeft(t, opts, SplayLoop(h, t._root, to_delete))

DeleteFound(h, t, to_delete, opts) ==
    IF opts < 0 \/ to_delete = NULL
    THEN [h |-> h, t |-> t, ret |-> 0, freed_node |-> NULL,
          freed_data |-> {}, diverged |-> FALSE]
    ELSE DeleteCutLeft(t, opts, SplayLoop(h, t._root, to_delete))

\* Gives the heap and the handle left behind, the value returned, the node
\* and the payloads passed to free().
splay_int_delete(h, t, key, opts) ==
    DeleteFound(h, t, _spli_search_node(h, t, key), opts)

\* The descent loop of splay_int_insert; gives pred.
RECURSIVE InsertLoop(_, _, _, _)

\* Mutant: the descent that continues to the right of a node with the new
\* key.
Mut_InsertLoop_EqualGoesRight(h, curr, pred, new_key) ==
    IF curr = NULL THEN pred
    ELSE IF Sub32(h[curr]._key, new_key) > 0
    THEN InsertLoop(h, h[curr]._left_son, curr, new_key)
    ELSE InsertLoop(h, h[curr]._right_son, curr, new_key)

InsertLoop(h, curr, pred, new_key) ==
    IF curr = NULL THEN pred
    ELSE IF Sub32(h[curr]._key, new_key) >= 0
    THEN InsertLoop(h, h[curr]._left_son, curr, new_key)
    ELSE InsertLoop(h, h[curr]._right_son, curr, new_key)

\* The end of splay_int_insert: l is the outcome of splaying the new node.
InsertCount(t, l) ==
    [h |-> l.h,
     t |-> [t EXCEPT !.nodes_count = t.nodes_count + 1],
     ret |-> t.nodes_count + 1, malloc |-> TRUE, diverged |-> l.diverged]

\* The new node becomes a son of pred, the node the descent ended at.
InsertAttach(h, pred, new_node, new_key) ==
    IF Sub32(h[pred]._key, new_key) >= 0
    THEN _spli_insert_left_subtree(h, pred, new_node)
    ELSE _spli_insert_right_subtree(h, pred, new_node)

\* Mutant: the insert that places the new node and does not splay it.
Mut_InsertPlace_NoSplay(h, t, pred, new_node, new_key) ==
    InsertCount(t,
      [h |-> InsertAttach(h, pred, new_node, new_key),
       ret |-> new_node, diverged |-> FALSE])

\* Mutant: the insert that makes the slot of the new node the root.
Mut_InsertPlace_RootsNewNode(h, t, pred, new_node, new_key) ==
    [InsertCount(t,
       SplayLoop(InsertAttach(h, pred, new_node, new_key), t._root, new_node))
       EXCEPT !.t._root = new_node]

\* pred is the node the descent ended at.
InsertPlace(h, t, pred, new_node, new_key) ==
    InsertCount(t,
      SplayLoop(InsertAttach(h, pred, new_node, new_key), t._root, new_node))

\* h is the heap after _spli_create_node.
InsertCreated(h, t, new_node, new_key) ==
    IF t._root = NULL
    THEN [h |-> h,
          t |-> [t EXCEPT !._root = new_node,
                          !.nodes_count = t.nodes_count + 1],
          ret |-> t.nodes_count + 1, malloc |-> TRUE, diverged |-> FALSE]
    ELSE InsertPlace(h, t, InsertLoop(h, t._root, NULL, new_key), new_node,
                     new_key)

\* Mutant: the insert without the capacity check.
Mut_insert_NoCapacityCheck(h, t, new_node, new_key, new_data) ==
    InsertCreated(_spli_create_node(h, new_node, new_key, new_data), t,
                  new_node, new_key)

\* new_node is what malloc gives inside _spli_create_node if it is called:
\* a free slot, or NULL.  Gives the heap and the handle left behind, the
\* value returned and whether malloc was called.
splay_int_insert(h, t, new_node, new_key, new_data) ==
    IF t.nodes_count = t.max_nodes
    THEN [h |-> h, t |-> t, ret |-> 0, malloc |-> FALSE, diverged |-> FALSE]
    ELSE InsertCreated(_spli_create_node(h, new_node, new_key, new_data), t,
                       new_node, new_key)

\* The address of the array a traversal returns and the address of the tree
\* handle: neither is one of the node slots.
BufferAddr == NumSlots + 1
TreeAddr == NumSlots + 2

(* ------------------------------ depth-first --------------------------- *)
\* The result array of a depth-first visit while it is being filled: buf is
\* the array calloc gave (elements 0..Len(buf)-1, all zero), ptr the element
\* *int_ptr points at (counted in elements of the mode's type, ints in key
\* mode and pointers otherwise) and written the elements stored so far, in
\* the order of the stores.
DfsStart(nodes_count) ==
    [buf |-> [i \in 1..nodes_count |-> 0], ptr |-> 0, written |-> <<>>]

\* *(int_ptr) = *(int_ptr) - 1 and *(int_ptr) = *(int_ptr) + 1
DfsBack(st) == [st EXCEPT !.ptr = st.ptr - 1]

DfsAdvance(st) == [st EXCEPT !.ptr = st.ptr + 1]

\* What the visit of root_node stores: the node, its key or its payload.
DfsValue(h, root_node, int_opt) ==
    IF HasBit(int_opt, SEARCH_NODES) THEN root_node
    ELSE IF HasBit(int_opt, SEARCH_KEYS) THEN h[root_node]._key
    ELSE h[root_node]._data

\* Mutant: the visit that stores one element further than the cursor.
Mut_DfsVisit_OffByOne(h, st, root_node, int_opt) ==
    IF HasBit(int_opt, SEARCH_NODES) \/ HasBit(int_opt, SEARCH_KEYS)
       \/ HasBit(int_opt, SEARCH_DATA)
    THEN [buf |-> IF st.ptr + 1 \in 0..(Len(st.buf) - 1)
                  THEN [st.buf EXCEPT ![st.ptr + 2] =
                          DfsValue(h, root_node, int_opt)]
                  ELSE st.buf,
          ptr |-> st.ptr,
          written |-> Append(st.written, st.ptr + 1)]
    ELSE st

\* **(int_ptr) = ...: the store of the visit.  A store outside the array is
\* recorded in written and leaves the array alone.
DfsVisit(h, st, root_node, int_opt) ==
    IF HasBit(int_opt, SEARCH_NODES) \/ HasBit(int_opt, SEARCH_KEYS)
       \/ HasBit(int_opt, SEARCH_DATA)
    THEN [buf |-> IF st.ptr \in 0..(Len(st.buf) - 1)
                  THEN [st.buf EXCEPT ![st.ptr + 1] =
                          DfsValue(h, root_node, int_opt)]
                  ELSE st.buf,
          ptr |-> st.ptr,
          written |-> Append(st.written, st.ptr)]
    ELSE st

RECURSIVE _spli_inodfs(_, _, _, _)
_spli_inodfs(h, root_node, st, int_opt) ==
    IF root_node = NULL THEN DfsBack(st)
    ELSE _spli_inodfs(h, h[root_node]._right_son,
           DfsAdvance(
             DfsVisit(h,
               DfsAdvance(_spli_inodfs(h, h[root_node]._left_son, st, int_opt)),
               root_node, int_opt)),
           int_opt)

\* Mutant: the pre-order visit that goes right before it goes left.
RECURSIVE Mut_preodfs_RightFirst(_, _, _, _)
Mut_preodfs_RightFirst(h, root_node, st, int_opt) ==
    IF root_node = NULL THEN DfsBack(st)
    ELSE Mut_preodfs_RightFirst(h, h[root_node]._left_son,
           DfsAdvance(
             Mut_preodfs_RightFirst(h, h[root_node]._right_son,
               DfsAdvance(DfsVisit(h, st, root_node, int_opt)), int_opt)),
           int_opt)

RECURSIVE _spli_preodfs(_, _, _, _)
_spli_preodfs(h, root_node, st, int_opt) ==
    IF root_node = NULL THEN DfsBack(st)
    ELSE _spli_preodfs(h, h[root_node]._right_son,
           DfsAdvance(
             _spli_preodfs(h, h[root_node]._left_son,
               DfsAdvance(DfsVisit(h, st, root_node, int_opt)), int_opt)),
           int_opt)

RECURSIVE _spli_postodfs(_, _, _, _)
_spli_postodfs(h, root_node, st, int_opt) ==
    IF root_node = NULL THEN DfsBack(st)
    ELSE DfsVisit(h,
           DfsAdvance(
             _spli_postodfs(h, h[root_node]._right_son,
               DfsAdvance(_spli_postodfs(h, h[root_node]._left_son, st,
                                         int_opt)),
               int_opt)),
           root_node, int_opt)

\* The mode splay_int_dfs takes from opts: the first of SEARCH_DATA,
\* SEARCH_KEYS, SEARCH_NODES that is set, 0 when none is.
DfsMode(opts) ==
    IF HasBit(opts, SEARCH_DATA) THEN SEARCH_DATA
    ELSE IF HasBit(opts, SEARCH_KEYS) THEN SEARCH_KEYS
    ELSE IF HasBit(opts, SEARCH_NODES) THEN SEARCH_NODES
    ELSE 0

\* A traversal that returns NULL, and one that returns the array of st.
\* buf is the array, written the elements stored (for a breadth-first visit
\* the queue slots filled), bad whether a queue slot was read that did not
\* hold a node.
TravNull == [null |-> TRUE, buf |-> <<>>, written |-> <<>>, bad |-> FALSE]

TravArray(st) ==
    [null |-> FALSE, buf |-> st.buf, written |-> st.written, bad |-> FALSE]

\* The launch of the visit type asks for, on the array calloc has given.
DfsLaunch(h, t, type, int_opt) ==
    IF HasBit(type, DFS_PRE_ORDER)
    THEN TravArray(_spli_preodfs(h, t._root, DfsStart(t.nodes_count), int_opt))
    ELSE IF HasBit(type, DFS_IN_ORDER)
    THEN TravArray(_spli_inodfs(h, t._root, DfsStart(t.nodes_count), int_opt))
    ELSE IF HasBit(type, DFS_POST_ORDER)
    THEN TravArray(_spli_postodfs(h, t._root, DfsStart(t.nodes_count),
                                  int_opt))
    ELSE TravNull

\* Gives whether NULL is returned, the array returned and the stores made.
splay_int_dfs(h, t, type, opts) ==
    IF type <= 0 \/ opts <= 0 THEN TravNull
    ELSE IF t._root = NULL THEN TravNull
    ELSE IF DfsMode(opts) = 0 THEN TravNull
    ELSE DfsLaunch(h, t, type, DfsMode(opts))

(* ----------------------------- breadth-first -------------------------- *)
\* The array of splay_int_bfs is nodes_count pointer slots, each PtrInts ints
\* wide.  It is modelled int by int: an int of the array is zero (as calloc
\* left it), one part of a stored pointer, or a stored int.
ZeroInt == [kind |-> "zero", val |-> 0, part |-> 0]

\* bfs_res[j] = p for a pointer slot j; a slot outside the array is not
\* stored.
StorePtr(cells, j, p) ==
    [c \in DOMAIN cells |->
       IF (c - 1) \div PtrInts = j
       THEN [kind |-> "ptr", val |-> p, part |-> (c - 1) % PtrInts]
       ELSE cells[c]]

\* ((int *)bfs_res)[i] = k
StoreInt(cells, i, k) ==
    [c \in DOMAIN cells |->
       IF c - 1 = i THEN [kind |-> "int", val |-> k, part |-> 0]
       ELSE cells[c]]

\* Whether the pointer slot j holds a stored pointer in all its parts.
HoldsPtr(cells, j) ==
    /\ (j + 1) * PtrInts <= Len(cells)
    /\ \A c \in (j * PtrInts + 1)..((j + 1) * PtrInts) :
         /\ cells[c].kind = "ptr"
         /\ cells[c].part = (c - 1) % PtrInts
         /\ cells[c].val = cells[j * PtrInts + 1].val

\* bfs_res[j], NULL when the slot does not hold a stored pointer.
LoadPtr(cells, j) ==
    IF HoldsPtr(cells, j) THEN cells[j * PtrInts + 1].val ELSE NULL

\* The state before the loop: *bfs_res = tree->_root, int_ptr = bfs_res + 1,
\* key_ptr = (int *)bfs_res.
BfsStart(t) ==
    [cells |-> StorePtr([c \in 1..(t.nodes_count * PtrInts) |-> ZeroInt], 0,
                        t._root),
     int_ptr |-> 1, key_ptr |-> 0, written |-> <<0>>, bad |-> FALSE]

\* The visit of curr, dequeued from slot i.
BfsVisit(h, st, i, curr, opts) ==
    IF HasBit(opts, SEARCH_DATA)
    THEN [st EXCEPT !.cells = StorePtr(st.cells, i, h[curr]._data)]
    ELSE IF HasBit(opts, SEARCH_KEYS)
    THEN [st EXCEPT !.cells = StoreInt(st.cells, st.key_ptr, h[curr]._key),
                    !.key_ptr = st.key_ptr + 1]
    ELSE IF HasBit(opts, SEARCH_NODES)
    THEN [st EXCEPT !.cells = StorePtr(st.cells, i, curr)]
    ELSE st

\* if (son != NULL) { *int_ptr = son; int_ptr++; }
BfsPush(st, son) ==
    IF son # NULL
    THEN [st EXCEPT !.cells = StorePtr(st.cells, st.int_ptr, son),
                    !.int_ptr = st.int_ptr + 1,
                    !.written = Append(st.written, st.int_ptr)]
    ELSE st

\* Mutant: the sons are appended in the same order whatever type says.
Mut_BfsSons_AlwaysLeftFirst(h, st, curr, type) ==
    BfsPush(BfsPush(st, h[curr]._left_son), h[curr]._right_son)

BfsSons(h, st, curr, type) ==
    IF HasBit(type, BFS_LEFT_FIRST)
    THEN BfsPush(BfsPush(st, h[curr]._left_son), h[curr]._right_son)
    ELSE IF HasBit(type, BFS_RIGHT_FIRST)
    THEN BfsPush(BfsPush(st, h[curr]._right_son), h[curr]._left_son)
    ELSE st

\* The for loop from index i on.  curr is bfs_res[i]; when the slot does not
\* hold a node the visit reads through a pointer that is none: the loop is
\* given up and the state marked bad.
RECURSIVE BfsLoop(_, _, _, _, _, _)
BfsIter(h, nodes_count, i, st, curr, type, opts) ==
    IF curr = NULL THEN [st EXCEPT !.bad = TRUE]
    ELSE BfsLoop(h, nodes_count, i + 1,
                 BfsSons(h, BfsVisit(h, st, i, curr, opts), curr, type),
                 type, opts)

BfsLoop(h, nodes_count, i, st, type, opts) ==
    IF i >= nodes_count THEN st
    ELSE BfsIter(h, nodes_count, i, st, LoadPtr(st.cells, i), type, opts)

\* The array returned: nodes_count ints in key mode (after reallocarray),
\* nodes_count pointers otherwise.  An element that is not of the kind the
\* mode stores reads as 0 and marks the result bad.
BfsElement(cells, i, opts) ==
    IF ~HasBit(opts, SEARCH_DATA) /\ HasBit(opts, SEARCH_KEYS)
    THEN (IF cells[i + 1].kind = "int" THEN cells[i + 1].val ELSE 0)
    ELSE LoadPtr(cells, i)

BfsElementBad(cells, i, opts) ==
    IF ~HasBit(opts, SEARCH_DATA) /\ HasBit(opts, SEARCH_KEYS)
    THEN cells[i + 1].kind # "int"
    ELSE ~HoldsPtr(cells, i)

BfsArray(st, nodes_count, opts) ==
    [null |-> FALSE,
     buf |-> [i \in 1..nodes_count |-> BfsElement(st.cells, i - 1, opts)],
     written |-> st.written,
     bad |-> st.bad \/ \E i \in 1..nodes_count :
                         BfsElementBad(st.cells, i - 1, opts)]

\* Gives whether NULL is returned, the array returned, the queue slots
\* filled and whether a slot was read that held no node.
splay_int_bfs(h, t, type, opts) ==
    IF t._root = NULL \/ type <= 0 \/ opts <= 0
       \/ ~(HasBit(type, BFS_LEFT_FIRST) \/ HasBit(type, BFS_RIGHT_FIRST))
       \/ ~(HasBit(opts, SEARCH_KEYS) \/ HasBit(opts, SEARCH_DATA)
            \/ HasBit(opts, SEARCH_NODES))
    THEN TravNull
    ELSE BfsArray(BfsLoop(h, t.nodes_count, 0, BfsStart(t), type, opts),
                  t.nodes_count, opts)

\* The end of splay_int_bfs where reallocarray may fail: r is the array as
\* the loop has left it (in the buffer at BufferAddr) and shrunk the value
\* reallocarray returns, NULL if it fails; on failure the buffer is left as
\* it is.  The code assigns that value to bfs_res before it tests it, so that
\* the free() of the failure branch is given NULL.  Gives the value
\* returned, the calls of free() made and the buffers the call has allocated
\* and neither freed nor returned.
BfsShrink(r, opts, shrunk) ==
    IF r.null THEN [ret |-> NULL, frees |-> <<>>, leaked |-> {}]
    ELSE IF HasBit(opts, SEARCH_KEYS) /\ shrunk = NULL
    THEN [ret |-> NULL, frees |-> << <<"array", shrunk>> >>,
          leaked |-> {BufferAddr}]
    ELSE [ret |-> BufferAddr, frees |-> <<>>, leaked |-> {}]

(* --------------------------- delete_splay_int_tree --------------------- *)
\* free(node)
_spli_delete_node(h, node) == [h EXCEPT ![node] = FreeSlot]

\* The calls of free() one pass of the loop makes for nodes[i], in order.
DeleteTreeFrees(h, node, opts) ==
    (IF HasBit(opts, DELETE_FREE_DATA) THEN << <<"data", h[node]._data>> >>
     ELSE <<>>)
    \o << <<"node", node>> >>

\* Mutant: the loop that stops one node early.
RECURSIVE Mut_DeleteTreeLoop_StopsEarly(_, _, _, _, _, _)
Mut_DeleteTreeLoop_StopsEarly(h, nodes, i, nodes_count, opts, frees) ==
    IF i + 1 >= nodes_count THEN [h |-> h, frees |-> frees]
    ELSE Mut_DeleteTreeLoop_StopsEarly(
           _spli_delete_node(h, nodes[i + 1]), nodes, i + 1, nodes_count,
           opts, frees \o DeleteTreeFrees(h, nodes[i + 1], opts))

\* for (i = 0; i < tree->nodes_count; i++) ..., from index i on; frees is the
\* sequence of the calls of free() made so far.
RECURSIVE DeleteTreeLoop(_, _, _, _, _, _)
DeleteTreeLoop(h, nodes, i, nodes_count, opts, frees) ==
    IF i >= nodes_count THEN [h |-> h, frees |-> frees]
    ELSE DeleteTreeLoop(_spli_delete_node(h, nodes[i + 1]), nodes, i + 1,
                        nodes_count, opts,
                        frees \o DeleteTreeFrees(h, nodes[i + 1], opts))

\* free(nodes); free(tree); return 0; l being the outcome of the loop.
DeleteTreeEnd(l, handle) ==
    [h |-> l.h, ret |-> 0,
     frees |-> l.frees \o << <<"array", BufferAddr>>, <<"tree", handle>> >>]

\* Gives the heap left behind, the value returned and the calls of free()
\* made, in order.  handle is the pointer passed as tree, t what it points to.
delete_splay_int_tree(h, t, handle, opts) ==
    IF handle = NULL \/ opts < 0 THEN [h |-> h, ret |-> -1, frees |-> <<>>]
    ELSE IF t._root = NULL
    THEN [h |-> h, ret |-> 0, frees |-> << <<"tree", handle>> >>]
    ELSE \* nodes = splay_int_bfs(tree, BFS_LEFT_FIRST, SEARCH_NODES);
         CHOOSE r \in {DeleteTreeEnd(
                         DeleteTreeLoop(h, nodes, 0, t.nodes_count, opts, <<>>),
                         handle) :
                       nodes \in {splay_int_bfs(h, t, BFS_LEFT_FIRST,
                                                SEARCH_NODES).buf}} : TRUE

(* ------------------- searches that run concurrently ------------------- *)
\* splay_int_search without SEARCH_SPLAY, statement by statement: each of the
\* operators below is one read of a field of the tree or of a node, followed
\* by the thread's own computation up to its next read.  rd is the thread's
\* state; the result is its state after the step.

\* The call: the sanity check of opts.
ReadStart(key, opts) ==
    IF opts <= 0
    THEN [pc |-> "done", key |-> key, opts |-> opts, curr |-> NULL,
          comp |-> 0, ret |-> NULL]
    ELSE [pc |-> "root", key |-> key, opts |-> opts, curr |-> NULL,
          comp |-> 0, ret |-> NULL]

\* if (tree->_root == NULL) return NULL;
ReadRoot(t, rd) ==
    IF t._root = NULL THEN [rd EXCEPT !.pc = "done", !.ret = NULL]
    ELSE [rd EXCEPT !.pc = "load"]

\* curr = tree->_root; and the loop test.
ReadLoad(t, rd) ==
    IF t._root = NULL THEN [rd EXCEPT !.pc = "done", !.curr = NULL, !.ret = NULL]
    ELSE [rd EXCEPT !.pc = "key", !.curr = t._root]

\* The return statements of splay_int_search once the node is found.
ReadFound(rd) ==
    IF HasBit(rd.opts, SEARCH_DATA) THEN [rd EXCEPT !.pc = "data"]
    ELSE IF HasBit(rd.opts, SEARCH_NODES)
    THEN [rd EXCEPT !.pc = "done", !.ret = rd.curr]
    ELSE [rd EXCEPT !.pc = "done", !.ret = NULL]

\* comp = curr->_key - key; and the tests of comp.
ReadKey(h, rd) ==
    IF Sub32(h[rd.curr]._key, rd.key) = 0
    THEN ReadFound([rd EXCEPT !.comp = 0])
    ELSE [rd EXCEPT !.pc = "son", !.comp = Sub32(h[rd.curr]._key, rd.key)]

\* The loop test on the son just read.
ReadNext(rd, son) ==
    IF son = NULL THEN [rd EXCEPT !.pc = "done", !.curr = NULL, !.ret = NULL]
    ELSE [rd EXCEPT !.pc = "key", !.curr = son]

\* Mutant: the descent with the two directions exchanged.
Mut_ReadSon_Swapped(h, rd) ==
    IF rd.comp > 0 THEN ReadNext(rd, h[rd.curr]._right_son)
    ELSE ReadNext(rd, h[rd.curr]._left_son)

\* curr = curr->_left_son; or curr = curr->_right_son;
ReadSon(h, rd) ==
    IF rd.comp > 0 THEN ReadNext(rd, h[rd.curr]._left_son)
    ELSE ReadNext(rd, h[rd.curr]._right_son)

\* return searched_node->_data;
ReadData(h, rd) == [rd EXCEPT !.pc = "done", !.ret = h[rd.curr]._data]

(* ------------------- a call that writes, write by write --------------- *)
\* The heaps a call of a routine that writes goes through, one after each
\* call of _spli_swap_info, of a cut routine and of an insert routine, in the
\* order of the code.
\* The heap a sequence of writes w made on h leaves.
After(h, w) == IF w = <<>> THEN h ELSE w[Len(w)]

\* Mutant: the right rotation that leaves out its first write, the exchange
\* of contents.
Mut_RightRotationWrites_NoSwap(h, node) ==
    LET left_son == h[node]._left_son
        c1 == _spli_cut_right_subtree(h, node)
        c2 == _spli_cut_left_subtree(c1.h, node)
        c3 == _spli_cut_left_subtree(c2.h, left_son)
        c4 == _spli_cut_right_subtree(c3.h, left_son)
        h5 == _spli_insert_right_subtree(c4.h, c2.ret, c1.ret)
        h6 == _spli_insert_left_subtree(h5, c2.ret, c4.ret)
        h7 == _spli_insert_right_subtree(h6, node, c2.ret)
    IN  <<c1.h, c2.h, c3.h, c4.h, h5, h6, h7,
          _spli_insert_left_subtree(h7, node, c3.ret)>>

RightRotationWrites(h, node) ==
    LET left_son == h[node]._left_son
        h0 == _spli_swap_info(h, node, left_son)
        c1 == _spli_cut_right_subtree(h0, node)
        r_tree == c1.ret
        c2 == _spli_cut_left_subtree(c1.h, node)
        l_tree == c2.ret
        c3 == _spli_cut_left_subtree(c2.h, left_son)
        l_tree_l == c3.ret
        c4 == _spli_cut_right_subtree(c3.h, left_son)
        l_tree_r == c4.ret
        h5 == _spli_insert_right_subtree(c4.h, l_tree, r_tree)
        h6 == _spli_insert_left_subtree(h5, l_tree, l_tree_r)
        h7 == _spli_insert_right_subtree(h6, node, l_tree)
    IN  <<h0, c1.h, c2.h, c3.h, c4.h, h5, h6, h7,
          _spli_insert_left_subtree(h7, node, l_tree_l)>>

LeftRotationWrites(h, node) ==
    LET right_son == h[node]._right_son
        h0 == _spli_swap_info(h, node, right_son)
        c1 == _spli_cut_right_subtree(h0, node)
        r_tree == c1.ret
        c2 == _spli_cut_left_subtree(c1.h, node)
        l_tree == c2.ret
        c3 == _spli_cut_left_subtree(c2.h, right_son)
        r_tree_l == c3.ret
        c4 == _spli_cut_right_subtree(c3.h, right_son)
        r_tree_r == c4.ret
        h5 == _spli_insert_left_subtree(c4.h, r_tree, l_tree)
        h6 == _spli_insert_right_subtree(h5, r_tree, r_tree_l)
        h7 == _spli_insert_left_subtree(h6, node, r_tree)
    IN  <<h0, c1.h, c2.h, c3.h, c4.h, h5, h6, h7,
          _spli_insert_right_subtree(h7, node, r_tree_r)>>

\* The writes w and then those of a right (left) rotation at node.
ThenRight(h, w, node) == w \o RightRotationWrites(After(h, w), node)
ThenLeft(h, w, node) == w \o LeftRotationWrites(After(h, w), node)

\* The writes of the four consecutive ifs of _spli_splay, each tested on the
\* heap as the writes w made so far have left it.
SplayCase2Writes(h, w, node, father_node, grand_node) ==
    IF After(h, w)[father_node]._left_son = node
       /\ After(h, w)[grand_node]._left_son = father_node
    THEN ThenRight(h, ThenRight(h, w, grand_node), grand_node)
    ELSE w

SplayCase3Writes(h, w, node, father_node, grand_node) ==
    IF After(h, w)[father_node]._right_son = node
       /\ After(h, w)[grand_node]._right_son = father_node
    THEN ThenLeft(h, ThenLeft(h, w, grand_node), grand_node)
    ELSE w

SplayCase4Writes(h, w, node, father_node, grand_node) ==
    IF After(h, w)[father_node]._left_son = node
       /\ After(h, w)[grand_node]._right_son = father_node
    THEN ThenLeft(h, ThenRight(h, w, father_node), grand_node)
    ELSE w

SplayCase5Writes(h, w, node, father_node, grand_node) ==
    IF After(h, w)[father_node]._right_son = node
       /\ After(h, w)[grand_node]._left_son = father_node
    THEN ThenRight(h, ThenLeft(h, w, father_node), grand_node)
    ELSE w

\* The writes of one call of _spli_splay.
SplayWrites(h, node) ==
    IF node = NULL \/ h[node]._father = NULL THEN <<>>
    ELSE
      LET father_node == h[node]._father
          grand_node == h[father_node]._father
      IN  IF grand_node = NULL
          THEN IF h[father_node]._left_son = node
               THEN RightRotationWrites(h, father_node)
               ELSE LeftRotationWrites(h, father_node)
          ELSE SplayCase5Writes(h,
                 SplayCase4Writes(h,
                   SplayCase3Writes(h,
                     SplayCase2Writes(h, <<>>, node, father_node, grand_node),
                     node, father_node, grand_node),
                   node, father_node, grand_node),
                 node, father_node, grand_node)

\* The writes of while (top != curr) curr = _spli_splay(curr);
RECURSIVE SplayLoopWrites(_, _, _)
SplayLoopWritesStep(h, top, curr, s) ==
    IF s.ret = curr /\ s.h = h THEN <<>>
    ELSE SplayWrites(h, curr) \o SplayLoopWrites(s.h, top, s.ret)

SplayLoopWrites(h, top, curr) ==
    IF top = curr THEN <<>>
    ELSE SplayLoopWritesStep(h, top, curr, _spli_splay(h, curr))

\* The writes of splay_int_search.
SearchWritesFound(h, t, searched_node, opts) ==
    IF searched_node # NULL /\ HasBit(opts, SEARCH_SPLAY)
    THEN SplayLoopWrites(h, t._root, searched_node)
    ELSE <<>>

SearchWrites(h, t, key, opts) ==
    IF opts <= 0 THEN <<>>
    ELSE SearchWritesFound(h, t, _spli_search_node(h, t, key), opts)

\* The writes of splay_int_insert to the nodes: the new node is filled, made
\* a son of pred and splayed (h is the heap after _spli_create_node, a the
\* heap with the new node attached).
InsertWritesSplay(a, t, new_node) ==
    <<a>> \o SplayLoopWrites(a, t._root, new_node)

InsertWritesCreated(h, t, new_node, new_key) ==
    IF t._root = NULL THEN <<h>>
    ELSE <<h>> \o InsertWritesSplay(
                    InsertAttach(h, InsertLoop(h, t._root, NULL, new_key),
                                 new_node, new_key),
                    t, new_node)

InsertWrites(h, t, new_node, new_key, new_data) ==
    IF t.nodes_count = t.max_nodes THEN <<>>
    ELSE InsertWritesCreated(
           _spli_create_node(h, new_node, new_key, new_data), t, new_node,
           new_key)

(* ------------------------------ the machine --------------------------- *)
\* `last` is the record of the call that has just returned (or, when hung,
\* of the call that never returns): the call, its arguments, its result and
\* what it passed to free().  The client takes the result (Return) before it
\* makes the next call.
Call(op, key, data, opts, ret, nomem, freed_node, freed_data) ==
    [op |-> op, key |-> key, data |-> data, opts |-> opts, ret |-> ret,
     nomem |-> nomem, freed_node |-> freed_node, freed_data |-> freed_data,
     type |-> 0, buf |-> <<>>, written |-> <<>>, bad |-> FALSE,
     handle |-> TreeAddr, frees |-> <<>>, node |-> NULL, grand |-> NULL,
     leaked |-> {}]

Idle == Call("idle", 0, 0, 0, 0, FALSE, NULL, {})

\* free(node)
Release(h, node) == [h EXCEPT ![node] = FreeSlot]

\* The slot malloc hands out when it succeeds.
Fresh == IF alloc = Slots THEN {}
         ELSE {CHOOSE n \in Slots \ alloc : \A m \in Slots \ alloc : n <= m}

\* The thread that writes, in no call: pc is "idle" or "run"; todo are the
\* heaps of the writes the call has still to make, t the handle and call the
\* record the call leaves when it returns; raced are the threads whose
\* search has run while a call of the writer was running, added the keys the
\* writer has inserted since the last search began.
NoWrite == [pc |-> "idle", todo |-> <<>>, t |-> create_splay_int_tree,
            call |-> Idle, raced |-> {}, added |-> {}]

\* The threads that search without splaying, and the state of a thread that
\* is in no call.  pc is the statement of _spli_search_node or
\* splay_int_search the thread is to execute next; key, opts are the call's
\* arguments, curr and comp the locals, ret the value returned.
Threads == {1, 2}

NoSearch == [pc |-> "idle", key |-> 0, opts |-> 0, curr |-> NULL, comp |-> 0,
             ret |-> NULL]

Init ==
    /\ heap = [n \in Slots |-> FreeSlot]
    /\ alloc = {}
    /\ tree = create_splay_int_tree
    /\ last = Idle
    /\ failed = 0
    /\ hung = FALSE
    /\ readers = [r \in Threads |-> NoSearch]
    /\ wraps = TRUE
    /\ writer = NoWrite

\* The state after construction of the clients whose keys make the
\* difference of the descents overflow, in either build.
InitWide ==
    /\ heap = [n \in Slots |-> FreeSlot]
    /\ alloc = {}
    /\ tree = create_splay_int_tree
    /\ last = Idle
    /\ failed = 0
    /\ hung = FALSE
    /\ readers = [r \in Threads |-> NoSearch]
    /\ wraps \in BOOLEAN
    /\ writer = NoWrite

\* A call of splay_int_insert in which malloc gives new_node, r being its
\* outcome.  A call whose splay loop does not end never returns: the machine
\* stops in it.
InsertDone(new_key, new_data, new_node, r, nomem) ==
    /\ last = Idle
    /\ failed' = IF nomem THEN failed + 1 ELSE failed
    /\ IF r.diverged
       THEN /\ hung' = TRUE
            /\ last' = Call("insert", new_key, new_data, 0, 0, nomem, NULL, {})
            /\ UNCHANGED <<heap, alloc, tree, readers, wraps, writer>>
       ELSE /\ heap' = r.h
            /\ tree' = r.t
            /\ alloc' = IF r.malloc /\ new_node # NULL
                        THEN alloc \cup {new_node} ELSE alloc
            /\ last' = Call("insert", new_key, new_data, 0, r.ret, nomem,
                            NULL, {})
            /\ UNCHANGED <<hung, readers, wraps, writer>>

InsertCall(new_key, new_data, new_node) ==
    InsertDone(new_key, new_data, new_node,
               splay_int_insert(heap, tree, new_node, new_key, new_data),
               tree.nodes_count # tree.max_nodes /\ new_node = NULL)

Insert ==
    /\ Cardinality(alloc) < MaxNodes
    /\ \E e \in Entries, n \in Fresh :
         InsertCall(EntryKey(e), EntryData(e), n)

InsertDeep ==
    \E k \in Keys, n \in Fresh : InsertCall(k, DeepData, n)

InsertNoMem ==
    /\ failed < MaxNoMem
    /\ \E e \in Entries : InsertCall(EntryKey(e), EntryData(e), NULL)

DeleteOpts == {0, DELETE_FREE_DATA}

DeleteDone(key, opts, r) ==
    /\ last = Idle
    /\ IF r.diverged
       THEN /\ hung' = TRUE
            /\ last' = Call("delete", key, 0, opts, 0, FALSE, NULL, {})
            /\ UNCHANGED <<heap, alloc, tree, failed, readers, wraps, writer>>
       ELSE /\ heap' = IF r.freed_node # NULL
                       THEN Release(r.h, r.freed_node) ELSE r.h
            /\ alloc' = alloc \ {r.freed_node}
            /\ tree' = r.t
            /\ last' = Call("delete", key, 0, opts, r.ret, FALSE,
                            r.freed_node, r.freed_data)
            /\ UNCHANGED <<failed, hung, readers, wraps, writer>>

Delete ==
    \E k \in EntryKeys, o \in DeleteOpts :
      DeleteDone(k, o, splay_int_delete(heap, tree, k, o))

DeleteDeep ==
    \E k \in Keys : DeleteDone(k, 0, splay_int_delete(heap, tree, k, 0))

\* The keys of the clients that use the whole range of int.
WideKeys == {INT_MIN, -1, 0, INT_MAX}

InsertWide ==
    /\ Cardinality(alloc) < MaxNodes
    /\ \E k \in WideKeys, n \in Fresh : InsertCall(k, DeepData, n)

DeleteWide ==
    \E k \in WideKeys : DeleteDone(k, 0, splay_int_delete(heap, tree, k, 0))

SearchOpts == {SEARCH_DATA, SEARCH_NODES, SEARCH_DATA + SEARCH_SPLAY,
               SEARCH_NODES + SEARCH_SPLAY}

SearchDone(key, opts, r) ==
    /\ last = Idle
    /\ IF r.diverged
       THEN /\ hung' = TRUE
            /\ last' = Call("search", key, 0, opts, NULL, FALSE, NULL, {})
            /\ UNCHANGED <<heap, alloc, tree, failed, readers, wraps, writer>>
       ELSE /\ heap' = r.h
            /\ last' = Call("search", key, 0, opts, r.ret, FALSE, NULL, {})
            /\ UNCHANGED <<alloc, tree, failed, hung, readers, wraps, writer>>

Search ==
    \E k \in EntryKeys, o \in SearchOpts :
      SearchDone(k, o, splay_int_search(heap, tree, k, o))

SearchDeepOpts == {SEARCH_NODES, SEARCH_NODES + SEARCH_SPLAY}

SearchDeep ==
    \E k \in Keys, o \in SearchDeepOpts :
      SearchDone(k, o, splay_int_search(heap, tree, k, o))

SearchWide ==
    \E k \in WideKeys, o \in SearchDeepOpts :
      SearchDone(k, o, splay_int_search(heap, tree, k, o))

\* The largest payload in the tree, 0 if the tree is empty.
Newest ==
    IF alloc = {} THEN 0
    ELSE CHOOSE d \in {heap[n]._data : n \in alloc} :
           \A n \in alloc : heap[n]._data <= d

\* An insert by a client that numbers its inserts: the payload is larger
\* than every payload in the tree, so that of two entries of the tree the
\* one with the larger payload was inserted later.
InsertStamped ==
    /\ Cardinality(alloc) < MaxNodes
    /\ Newest < MaxStamp
    /\ \E k \in Keys, n \in Fresh : InsertCall(k, Newest + 1, n)

\* A call of an internal subroutine on node, h being the heap it leaves
\* behind and ret the slot it returns; grand is the grandfather node had when
\* the subroutine was called.
SubroutineDone(op, node, h, ret) ==
    /\ last = Idle
    /\ heap' = h
    /\ last' = [Call(op, 0, 0, 0, ret, FALSE, NULL, {})
                  EXCEPT !.node = node,
                         !.grand = IF heap[node]._father = NULL THEN NULL
                                   ELSE heap[heap[node]._father]._father]
    /\ UNCHANGED <<alloc, tree, failed, hung, readers, wraps, writer>>

\* _spli_right_rotation(node) on a node that has a left son.
RightRotation ==
    \E node \in alloc :
      /\ heap[node]._left_son # NULL
      /\ SubroutineDone("right_rotation", node,
                        _spli_right_rotation(heap, node), NULL)

\* _spli_left_rotation(node) on a node that has a right son.
LeftRotation ==
    \E node \in alloc :
      /\ heap[node]._right_son # NULL
      /\ SubroutineDone("left_rotation", node,
                        _spli_left_rotation(heap, node), NULL)

SplayStepDone(node, s) == SubroutineDone("splay", node, s.h, s.ret)

\* _spli_splay(node) on a node of the tree.
SplayStep == \E node \in alloc : SplayStepDone(node, _spli_splay(heap, node))

\* A call of splay_int_dfs or splay_int_bfs, r being its outcome.
TraverseDone(op, type, opts, r) ==
    /\ last = Idle
    /\ last' = [Call(op, 0, 0, opts, IF r.null THEN NULL ELSE BufferAddr,
                     FALSE, NULL, {})
                  EXCEPT !.type = type, !.buf = r.buf, !.written = r.written,
                         !.bad = r.bad]
    /\ UNCHANGED <<heap, alloc, tree, failed, hung, readers, wraps, writer>>

DfsTypes == {DFS_PRE_ORDER, DFS_IN_ORDER, DFS_POST_ORDER}

BfsTypes == {BFS_LEFT_FIRST, BFS_RIGHT_FIRST}

TravModes == {SEARCH_DATA, SEARCH_KEYS, SEARCH_NODES}

Dfs ==
    \E type \in DfsTypes, opts \in TravModes :
      TraverseDone("dfs", type, opts, splay_int_dfs(heap, tree, type, opts))

Bfs ==
    \E type \in BfsTypes, opts \in TravModes :
      TraverseDone("bfs", type, opts, splay_int_bfs(heap, tree, type, opts))

\* Calls whose options name no return mode, or more than one of the modes,
\* orders or directions of which the header allows one at a time.
\* The traversals of the client that builds deep trees: the nodes, in order
\* and level by level.
DfsDeep ==
    TraverseDone("dfs", DFS_IN_ORDER, SEARCH_NODES,
                 splay_int_dfs(heap, tree, DFS_IN_ORDER, SEARCH_NODES))

BfsDeep ==
    TraverseDone("bfs", BFS_LEFT_FIRST, SEARCH_NODES,
                 splay_int_bfs(heap, tree, BFS_LEFT_FIRST, SEARCH_NODES))

\* A call of splay_int_bfs whose reallocarray, if it is called, fails.
BfsShrinkFailsDone(type, opts, s) ==
    /\ last = Idle
    /\ last' = [Call("bfs", 0, 0, opts, s.ret, TRUE, NULL, {})
                  EXCEPT !.type = type, !.frees = s.frees,
                         !.leaked = s.leaked]
    /\ UNCHANGED <<heap, alloc, tree, failed, hung, readers, wraps, writer>>

BfsShrinkFails ==
    \E type \in BfsTypes, opts \in TravModes :
      BfsShrinkFailsDone(type, opts,
                         BfsShrink(splay_int_bfs(heap, tree, type, opts), opts,
                                   NULL))

SearchMisuseOpts == {SEARCH_DATA + SEARCH_NODES, SEARCH_SPLAY, SEARCH_KEYS,
                     SEARCH_SPLAY + SEARCH_KEYS}

SearchMisuse ==
    \E k \in EntryKeys, o \in SearchMisuseOpts :
      SearchDone(k, o, splay_int_search(heap, tree, k, o))

DfsMisuse ==
    \E c \in {<<DFS_PRE_ORDER + DFS_IN_ORDER, SEARCH_NODES>>,
               <<DFS_POST_ORDER, SEARCH_DATA + SEARCH_KEYS>>} :
      TraverseDone("dfs", c[1], c[2], splay_int_dfs(heap, tree, c[1], c[2]))

BfsMisuse ==
    \E c \in {<<BFS_LEFT_FIRST + BFS_RIGHT_FIRST, SEARCH_NODES>>,
               <<BFS_RIGHT_FIRST, SEARCH_KEYS + SEARCH_NODES>>} :
      TraverseDone("bfs", c[1], c[2], splay_int_bfs(heap, tree, c[1], c[2]))

\* No thread is in a search.
Quiet == \A r \in Threads : readers[r].pc = "idle"

\* An insert while no thread is searching, by a client that holds at most
\* MaxNodes nodes and stores with each key a payload of its own.
InsertQuiet ==
    /\ Quiet
    /\ Cardinality(alloc) < MaxNodes
    /\ \E k \in Keys, n \in Fresh : InsertCall(k, EntryData(k), n)

ReadOpts == {SEARCH_DATA, SEARCH_NODES}

\* Thread r calls splay_int_search without SEARCH_SPLAY.
StartSearch(r) ==
    /\ last = Idle
    /\ readers[r].pc = "idle"
    /\ \E k \in Keys, o \in ReadOpts :
         readers' = [readers EXCEPT ![r] = ReadStart(k, o)]
    /\ UNCHANGED <<heap, alloc, tree, last, failed, hung, wraps, writer>>

\* Thread r executes its next read.
ReadStep(r) ==
    /\ readers[r].pc \in {"root", "load", "key", "son", "data"}
    /\ readers' =
         [readers EXCEPT ![r] =
            IF readers[r].pc = "root" THEN ReadRoot(tree, readers[r])
            ELSE IF readers[r].pc = "load" THEN ReadLoad(tree, readers[r])
            ELSE IF readers[r].pc = "key" THEN ReadKey(heap, readers[r])
            ELSE IF readers[r].pc = "son" THEN ReadSon(heap, readers[r])
            ELSE ReadData(heap, readers[r])]
    /\ UNCHANGED <<heap, alloc, tree, last, failed, hung, wraps, writer>>

\* The search of thread r returns to its caller.
ReadReturn(r) ==
    /\ readers[r].pc = "done"
    /\ readers' = [readers EXCEPT ![r] = NoSearch]
    /\ UNCHANGED <<heap, alloc, tree, last, failed, hung, wraps, writer>>

\* The threads that are in a search.
Searching == {r \in Threads : readers[r].pc \notin {"idle", "done"}}

\* An insert while no thread is searching and no call is writing.
InsertAlone ==
    /\ writer.pc = "idle"
    /\ InsertQuiet

\* The thread that searches while the writer is at work.
Racer == CHOOSE r \in Threads : TRUE

\* The writes of w, made on h, that change the heap: a cut of a subtree that
\* is not there writes nothing, and a write of the value a field holds leaves
\* the heap as it is.
RECURSIVE Changing(_, _)
Changing(h, w) ==
    IF w = <<>> THEN <<>>
    ELSE IF Head(w) = h THEN Changing(h, Tail(w))
    ELSE <<Head(w)>> \o Changing(Head(w), Tail(w))

\* The writer enters a call while other threads may be searching: todo are
\* the writes of the call, t and call what it leaves when it returns.
WriterCalls(call, t, todo) ==
    /\ last = Idle
    /\ writer.pc = "idle"
    /\ writer' = [pc |-> "run", todo |-> Changing(heap, todo), t |-> t,
                  call |-> call,
                  raced |-> writer.raced \cup Searching,
                  added |-> IF call.op = "insert"
                            THEN writer.added \cup {call.key}
                            ELSE writer.added]

\* The writer calls splay_int_search with SEARCH_SPLAY.
WriterSearch ==
    /\ \E k \in Keys :
         WriterCalls(
           Call("search", k, 0, SEARCH_NODES + SEARCH_SPLAY,
                splay_int_search(heap, tree, k,
                                 SEARCH_NODES + SEARCH_SPLAY).ret,
                FALSE, NULL, {}),
           tree,
           SearchWrites(heap, tree, k, SEARCH_NODES + SEARCH_SPLAY))
    /\ UNCHANGED <<heap, alloc, tree, last, failed, hung, readers, wraps>>

\* The writer calls splay_int_insert, malloc giving new_node.
WriterInsertCall(new_key, new_data, new_node, r) ==
    /\ WriterCalls(Call("insert", new_key, new_data, 0, r.ret, FALSE, NULL,
                        {}),
                   r.t,
                   InsertWrites(heap, tree, new_node, new_key, new_data))
    /\ alloc' = alloc \cup {new_node}
    /\ UNCHANGED <<heap, tree, last, failed, hung, readers, wraps>>

WriterInsert ==
    /\ Cardinality(alloc) < MaxNodes
    /\ \E k \in Keys, n \in Fresh :
         WriterInsertCall(k, EntryData(k), n,
                          splay_int_insert(heap, tree, n, k, EntryData(k)))

\* The writer makes its next write.
WriterStep ==
    /\ writer.pc = "run"
    /\ writer.todo # <<>>
    /\ heap' = Head(writer.todo)
    /\ writer' = [writer EXCEPT !.todo = Tail(writer.todo),
                                !.raced = writer.raced \cup Searching]
    /\ UNCHANGED <<alloc, tree, last, failed, hung, readers, wraps>>

\* The call of the writer stores the handle's fields and returns.
WriterReturn ==
    /\ writer.pc = "run"
    /\ writer.todo = <<>>
    /\ tree' = writer.t
    /\ last' = writer.call
    /\ writer' = [NoWrite EXCEPT !.raced = writer.raced,
                                 !.added = writer.added]
    /\ UNCHANGED <<heap, alloc, failed, hung, readers, wraps>>

\* Thread r calls splay_int_search for the payload of a key, without
\* SEARCH_SPLAY, while the writer may be in a call.
StartRacing(r) ==
    /\ readers[r].pc = "idle"
    /\ \E k \in Keys :
         readers' = [readers EXCEPT ![r] = ReadStart(k, SEARCH_DATA)]
    /\ writer' = [writer EXCEPT !.raced = IF writer.pc = "run"
                                          THEN writer.raced \cup {r}
                                          ELSE writer.raced \ {r},
                                !.added = IF writer.pc = "run"
                                             /\ writer.call.op = "insert"
                                          THEN {writer.call.key}
                                          ELSE {}]
    /\ UNCHANGED <<heap, alloc, tree, last, failed, hung, wraps>>

\* The search of thread r returns to its caller, while the writer may be in
\* a call.
RacingReturn(r) ==
    /\ readers[r].pc = "done"
    /\ readers' = [readers EXCEPT ![r] = NoSearch]
    /\ writer' = [writer EXCEPT !.raced = writer.raced \ {r}, !.added = {}]
    /\ UNCHANGED <<heap, alloc, tree, last, failed, hung, wraps>>

\* A call of delete_splay_int_tree on the tree, r being its outcome; the
\* client goes on with the tree a new call of create_splay_int_tree gives.
DeleteTreeDone(opts, r) ==
    /\ last = Idle
    /\ last' = [Call("delete_tree", 0, 0, opts, r.ret, FALSE, NULL, {})
                  EXCEPT !.frees = r.frees]
    /\ heap' = r.h
    /\ alloc' = alloc \ {last'.frees[i][2] :
                            i \in {j \in DOMAIN last'.frees :
                                     last'.frees[j][1] = "node"}}
    /\ tree' = create_splay_int_tree
    /\ UNCHANGED <<failed, hung, readers, wraps, writer>>

DeleteTree ==
    \E o \in DeleteOpts :
      DeleteTreeDone(o, delete_splay_int_tree(heap, tree, TreeAddr, o))

\* The pointers a read of nodes[i] may give when nodes is NULL and the read
\* does not fault.
Wild == Slots

\* delete_splay_int_tree on a tree that is not empty when the calloc of
\* splay_int_bfs fails: nodes is NULL and the loop reads nodes[0] through it,
\* which is not defined.  Either the read faults and the process is killed
\* with nothing freed, or the reads give some pointers g and the loop frees
\* what they point to, where what follows is not defined either: in both
\* cases the machine stops in the call.
DeleteTreeNoNodes(h, t, opts, g) ==
    IF g = <<>> THEN [h |-> h, frees |-> <<>>]
    ELSE DeleteTreeLoop(h, g, 0, t.nodes_count, opts, <<>>)

DeleteTreeNoMemDone(opts, r) ==
    /\ last = Idle
    /\ last' = [Call("delete_tree", 0, 0, opts, 0, TRUE, NULL, {})
                  EXCEPT !.frees = r.frees, !.bad = TRUE]
    /\ heap' = r.h
    /\ hung' = TRUE
    /\ UNCHANGED <<alloc, tree, failed, readers, wraps, writer>>

DeleteTreeNoMem ==
    /\ tree._root # NULL
    /\ \E o \in DeleteOpts :
         \E g \in {<<>>} \cup [1..tree.nodes_count -> Wild] :
           DeleteTreeNoMemDone(o, DeleteTreeNoNodes(heap, tree, o, g))

DeleteTreeDeep ==
    DeleteTreeDone(0, delete_splay_int_tree(heap, tree, TreeAddr, 0))

\* A call of delete_splay_int_tree with a NULL tree or with negative options.
DeleteTreeBadArgs ==
    \E c \in {<<NULL, 0>>, <<NULL, DELETE_FREE_DATA>>, <<TreeAddr, -1>>} :
      /\ last = Idle
      /\ heap' = delete_splay_int_tree(heap, tree, c[1], c[2]).h
      /\ last' = [Call("delete_tree", 0, 0, c[2],
                       delete_splay_int_tree(heap, tree, c[1], c[2]).ret,
                       FALSE, NULL, {})
                    EXCEPT !.handle = c[1],
                           !.frees = delete_splay_int_tree(heap, tree, c[1],
                                                           c[2]).frees]
      /\ UNCHANGED <<alloc, tree, failed, hung, readers, wraps, writer>>

\* The client writes the public field max_nodes.
SetMaxNodes ==
    \E m \in {CapLimit, ULONG_MAX} :
      /\ last = Idle
      /\ tree.max_nodes # m
      /\ tree' = [tree EXCEPT !.max_nodes = m]
      /\ UNCHANGED <<heap, alloc, last, failed, hung, readers, wraps, writer>>

\* The call returns to the client.
Return ==
    /\ last # Idle
    /\ ~hung
    /\ last' = Idle
    /\ UNCHANGED <<heap, alloc, tree, failed, hung, readers, wraps, writer>>

\* Calls on a tree whose allocations all succeed and whose capacity is the
\* one create_splay_int_tree sets, by a client that varies the payloads.
Next == Insert \/ Delete \/ Search \/ Return

Spec == Init /\ [][Next]_vars

\* The same calls by a client that builds deep trees.
NextDeep == InsertDeep \/ DeleteDeep \/ SearchDeep \/ Return

SpecDeep == Init /\ [][NextDeep]_vars

\* The calls of Spec, and the traversals.
NextTrav == Insert \/ Delete \/ Search \/ Dfs \/ Bfs \/ Return

SpecTrav == Init /\ [][NextTrav]_vars

\* The calls of Spec, and calls with options the header does not allow.
NextMisuse ==
    Insert \/ Delete \/ Search \/ SearchMisuse \/ DfsMisuse \/ BfsMisuse
    \/ Return

SpecMisuse == Init /\ [][NextMisuse]_vars

\* A tree built by inserts and searched by two threads at a time, with no
\* call that writes while a search is running.
NextReaders ==
    \/ InsertQuiet
    \/ Return
    \/ \E r \in Threads : StartSearch(r) \/ ReadStep(r) \/ ReadReturn(r)

SpecReaders == Init /\ [][NextReaders]_vars

\* The calls of Spec, and the deletion of the whole tree.
NextDestroy ==
    Insert \/ Delete \/ Search \/ DeleteTree \/ DeleteTreeBadArgs \/ Return

SpecDestroy == Init /\ [][NextDestroy]_vars

\* Every call of the library, by a client that builds deep trees and asks
\* the traversals for the nodes.
NextAll ==
    InsertDeep \/ DeleteDeep \/ SearchDeep \/ DfsDeep \/ BfsDeep
    \/ DeleteTreeDeep \/ Return

SpecAll == Init /\ [][NextAll]_vars

\* The calls of a client that numbers its inserts.
NextStamp == InsertStamped \/ DeleteDeep \/ SearchDeep \/ Return

SpecStamp == Init /\ [][NextStamp]_vars

\* Trees built by inserts and deletes and restructured by single calls of the
\* rotations and of _spli_splay.
NextSteps ==
    Insert \/ Delete \/ RightRotation \/ LeftRotation \/ SplayStep \/ Return

SpecSteps == Init /\ [][NextSteps]_vars

\* The calls of Spec, the breadth-first traversal and the deletion of the
\* tree, where the allocations of splay_int_bfs may fail.
NextBufNoMem ==
    Insert \/ Delete \/ Search \/ Bfs \/ BfsShrinkFails \/ DeleteTree
    \/ DeleteTreeNoMem \/ Return

SpecBufNoMem == Init /\ [][NextBufNoMem]_vars

\* The calls of a client whose keys are spread over the range of int.
NextWide == InsertWide \/ DeleteWide \/ SearchWide \/ Return

SpecWide == InitWide /\ [][NextWide]_vars

\* A tree built by inserts, searched by a thread that does not splay while
\* another thread calls splay_int_insert and splay_int_search with SEARCH_SPLAY.
NextRace ==
    \/ InsertAlone
    \/ WriterSearch
    \/ WriterInsert
    \/ WriterStep
    \/ WriterReturn
    \/ Return
    \/ StartRacing(Racer)
    \/ ReadStep(Racer)
    \/ RacingReturn(Racer)

SpecRace == Init /\ [][NextRace]_vars

\* The same, and a malloc that may fail.
NextNoMem == Insert \/ InsertNoMem \/ Delete \/ Search \/ Return

SpecNoMem == Init /\ [][NextNoMem]_vars

\* The same as Spec, and a client that sets the capacity.
NextCap == Insert \/ Delete \/ Search \/ SetMaxNodes \/ Return

SpecCap == Init /\ [][NextCap]_vars

(* ---------------------- vocabulary of the properties ------------------- *)
Sons(h, n) == {h[n]._left_son, h[n]._right_son} \ {NULL}

RECURSIVE Closure(_, _)
Closure(h, S) ==
    IF (UNION {Sons(h, n) : n \in S}) \subseteq S THEN S
    ELSE Closure(h, S \cup UNION {Sons(h, n) : n \in S})

\* The nodes reachable from root over the son links.
Reach(h, root) == IF root = NULL THEN {} ELSE Closure(h, {root})

\* The in-order listing of the nodes under n, cut at depth fuel.
RECURSIVE InOrderCut(_, _, _)
InOrderCut(h, n, fuel) ==
    IF n = NULL \/ fuel = 0 THEN <<>>
    ELSE InOrderCut(h, h[n]._left_son, fuel - 1) \o <<n>>
         \o InOrderCut(h, h[n]._right_son, fuel - 1)

InOrder(h, root) == InOrderCut(h, root, NumSlots + 1)

KeysOf(h, nodes) == [i \in DOMAIN nodes |-> h[nodes[i]]._key]

Entry(h, n) == <<h[n]._key, h[n]._data>>

\* How many nodes of the tree hold the entry e, or the key k.
CountEntry(h, root, e) == Cardinality({n \in Reach(h, root) : Entry(h, n) = e})

CountKey(h, root, k) == Cardinality({n \in Reach(h, root) : h[n]._key = k})

InOrderKeys == KeysOf(heap, InOrder(heap, tree._root))

\* A step that is a call of op returning.
Returns(op) == last = Idle /\ last'.op = op

(* -------------------------------- claims ------------------------------ *)
\* C1: after any sequence of successful insert, delete and search calls
\* (splaying or not), repeated keys allowed, the in-order sequence of the
\* keys of the tree is non-decreasing.
C1_InOrderNonDecreasing ==
    \A i \in 1..(Len(InOrderKeys) - 1) : InOrderKeys[i] <= InOrderKeys[i + 1]

\* A tree with a repeated key and two different keys, left
\* behind by a delete or by a splaying search that found its key.
C1_Witness ==
    /\ Len(InOrderKeys) >= 3
    /\ \E i \in 1..(Len(InOrderKeys) - 1) : InOrderKeys[i] = InOrderKeys[i + 1]
    /\ \E i \in 1..(Len(InOrderKeys) - 1) : InOrderKeys[i] < InOrderKeys[i + 1]
    /\ \/ last.op = "delete" /\ last.ret = 1
       \/ last.op = "search" /\ HasBit(last.opts, SEARCH_SPLAY)
          /\ last.ret # NULL

\* nodes_count is the number of nodes reachable from _root, and is 0 exactly
\* when _root is NULL.
CountAgrees ==
    /\ tree.nodes_count = Cardinality(Reach(heap, tree._root))
    /\ tree.nodes_count = 0 <=> tree._root = NULL

\* C2: with every allocation succeeding, between calls nodes_count is the
\* number of nodes reachable from _root and is 0 exactly when _root is NULL;
\* a successful insert raises it by exactly 1 and returns the new value, a
\* successful delete lowers it by exactly 1 and returns 1.
C2_SizeAccounting ==
    [][/\ CountAgrees'
       /\ Returns("insert") /\ last'.ret # 0 =>
            /\ tree'.nodes_count = tree.nodes_count + 1
            /\ last'.ret = tree'.nodes_count
       /\ Returns("delete") /\ last'.ret # 0 =>
            /\ tree'.nodes_count = tree.nodes_count - 1
            /\ last'.ret = 1]_vars

\* A successful delete has left a tree of two nodes or more.
C2_Witness ==
    /\ last.op = "delete" /\ last.ret = 1
    /\ tree.nodes_count >= 2
    /\ CountAgrees

\* C3: a search (payload or node mode, splaying or not) reports found if and
\* only if some entry of the tree has the key; the node returned has the key
\* and the payload returned is the payload of an entry of the tree with that
\* key.
C3_SearchFindsExactly ==
    [][Returns("search") =>
         /\ last'.ret # NULL <=> CountKey(heap, tree._root, last'.key) > 0
         /\ last'.ret # NULL /\ HasBit(last'.opts, SEARCH_NODES) =>
              /\ last'.ret \in Reach(heap', tree'._root)
              /\ heap'[last'.ret]._key = last'.key
         /\ last'.ret # NULL /\ HasBit(last'.opts, SEARCH_DATA) =>
              CountEntry(heap, tree._root, <<last'.key, last'.ret>>) > 0]_vars

\* A payload search has found a key that is held by a node other than the
\* root, in a tree whose root holds another key and another payload.
C3_Witness ==
    /\ last.op = "search" /\ last.ret # NULL
    /\ HasBit(last.opts, SEARCH_DATA)
    /\ ~HasBit(last.opts, SEARCH_SPLAY)
    /\ heap[tree._root]._key # last.key
    /\ heap[tree._root]._data # last.ret
    /\ tree.nodes_count >= 3

\* C4: after every successful insert of (k, v), also when entries with key k
\* already exist, the root holds key k and payload v, and a non-splaying
\* search for k stops at the root and returns v.
C4_InsertedAtRoot ==
    last.op = "insert" /\ last.ret # 0 =>
      /\ tree._root # NULL
      /\ heap[tree._root]._key = last.key
      /\ heap[tree._root]._data = last.data
      /\ splay_int_search(heap, tree, last.key, SEARCH_NODES).ret = tree._root
      /\ splay_int_search(heap, tree, last.key, SEARCH_DATA).ret = last.data

\* An insert of a key that was already in the tree with another payload.
C4_Witness ==
    /\ last.op = "insert" /\ last.ret >= 3
    /\ \E n \in Reach(heap, tree._root) :
         n # tree._root /\ heap[n]._key = last.key /\ heap[n]._data # last.data

\* C5: a delete that finds k removes exactly one entry, (k, p) with p the
\* payload a non-splaying search for k returns just before the call; every
\* other entry stays with its payload, and with DELETE_FREE_DATA the payload
\* released is p and no other.
C5_DeleteRemovesOneEntry ==
    [][Returns("delete")
       /\ CountKey(heap, tree._root, last'.key) > 0 =>
         LET p == splay_int_search(heap, tree, last'.key, SEARCH_DATA).ret
         IN  /\ last'.ret = 1
             /\ \A e \in {Entry(heap, n) : n \in Reach(heap, tree._root)}
                         \cup {Entry(heap', n) : n \in Reach(heap', tree'._root)} :
                  CountEntry(heap', tree'._root, e) =
                    CountEntry(heap, tree._root, e)
                      - (IF e = <<last'.key, p>> THEN 1 ELSE 0)
             /\ Cardinality(Reach(heap', tree'._root)) =
                  Cardinality(Reach(heap, tree._root)) - 1
             /\ last'.freed_data =
                  IF HasBit(last'.opts, DELETE_FREE_DATA) THEN {p} ELSE {}]_vars

\* A delete that released the payload and left an entry with the same key
\* and another payload in a tree of two nodes.
C5_Witness ==
    /\ last.op = "delete" /\ last.ret = 1
    /\ tree.nodes_count >= 2
    /\ \E d \in last.freed_data :
         \E n \in Reach(heap, tree._root) :
           heap[n]._key = last.key /\ heap[n]._data # d

\* C6 as stated: after a successful delete of key k, also on a tree into
\* which k was inserted more than once, a following search for k returns
\* absent.
C6_DeletedKeyAbsent ==
    last.op = "delete" /\ last.ret = 1 =>
      splay_int_search(heap, tree, last.key, SEARCH_NODES).ret = NULL

\* C6 amended: after a successful delete of key k, a following search for k
\* returns absent exactly when the tree held a single entry with key k before
\* the delete; when it held more, k is still found.
C6_DeletedKeyAbsentIfSingle ==
    [][Returns("delete") /\ last'.ret = 1 =>
         (splay_int_search(heap', tree', last'.key, SEARCH_NODES).ret = NULL
            <=> CountKey(heap, tree._root, last'.key) = 1)]_vars

\* A successful delete has left a tree of two nodes or more in which the key
\* is no longer found.
C6_Witness ==
    /\ last.op = "delete" /\ last.ret = 1
    /\ tree.nodes_count >= 2
    /\ splay_int_search(heap, tree, last.key, SEARCH_NODES).ret = NULL

\* C7 as stated: if the node allocation fails inside an insert, the call
\* returns 0 and the tree is exactly as before the call.
C7_NoMemLeavesTreeIntact ==
    [][Returns("insert") /\ last'.nomem =>
         /\ ~hung'
         /\ last'.ret = 0
         /\ UNCHANGED <<heap, tree, alloc>>]_vars

\* The nodes under n, n included.
Under(h, n) == Reach(h, n)

C9_FullInsertRejected ==
    [][Returns("insert") /\ tree.nodes_count = tree.max_nodes =>
         /\ last'.ret = 0
         /\ ~last'.nomem
         /\ UNCHANGED <<heap, tree, alloc>>]_vars

\* An insert has been refused by a tree that holds as many nodes as its
\* capacity allows.
C9_Witness ==
    /\ last.op = "insert" /\ last.ret = 0
    /\ tree.nodes_count = tree.max_nodes
    /\ tree.nodes_count >= 2
    /\ CountAgrees

\* C10: for a key that is not in the tree, delete returns 0 and search
\* returns absent, also with SEARCH_SPLAY; no rotation is performed: _root,
\* nodes_count and every node's key, payload and links are unchanged.
C10_AbsentKeyNoEffect ==
    [][(Returns("delete") \/ Returns("search"))
       /\ CountKey(heap, tree._root, last'.key) = 0 =>
         /\ last'.ret = 0
         /\ last'.freed_node = NULL /\ last'.freed_data = {}
         /\ UNCHANGED <<heap, tree, alloc>>]_vars

\* A splaying search has missed its key in a tree of three nodes or more.
C10_Witness ==
    /\ last.op = "search" /\ HasBit(last.opts, SEARCH_SPLAY)
    /\ last.ret = NULL
    /\ tree.nodes_count >= 3


\* C11: a search whose options do not include SEARCH_SPLAY, whether or not it
\* finds its key, writes no field of the handle and no field of any node:
\* shape, keys, payloads, _root and nodes_count are as before the call.
C11_PlainSearchWritesNothing ==
    [][Returns("search") /\ ~HasBit(last'.opts, SEARCH_SPLAY) =>
         UNCHANGED <<heap, tree, alloc>>]_vars

\* A search without SEARCH_SPLAY has returned a node that is not the root.
C11_Witness ==
    /\ last.op = "search" /\ ~HasBit(last.opts, SEARCH_SPLAY)
    /\ HasBit(last.opts, SEARCH_NODES)
    /\ last.ret # NULL /\ last.ret # tree._root

\* The in-order listing of the (key, payload) pairs of the tree.
InOrderEntries(h, root) ==
    [i \in DOMAIN InOrder(h, root) |-> Entry(h, InOrder(h, root)[i])]

\* C12: after a search with SEARCH_SPLAY and a valid return mode for a key k
\* that is present, the root holds k and the payload returned, the node
\* returned under SEARCH_NODES is the root, and the in-order sequence of
\* (key, payload) pairs and nodes_count are as before the call.
C12_SplaySearchBringsToRoot ==
    [][Returns("search") /\ HasBit(last'.opts, SEARCH_SPLAY)
       /\ (HasBit(last'.opts, SEARCH_DATA) \/ HasBit(last'.opts, SEARCH_NODES))
       /\ CountKey(heap, tree._root, last'.key) > 0 =>
         /\ tree'._root # NULL
         /\ heap'[tree'._root]._key = last'.key
         /\ HasBit(last'.opts, SEARCH_DATA) =>
              last'.ret = heap'[tree'._root]._data
         /\ ~HasBit(last'.opts, SEARCH_DATA) => last'.ret = tree'._root
         /\ InOrderEntries(heap', tree'._root) = InOrderEntries(heap, tree._root)
         /\ tree'.nodes_count = tree.nodes_count]_vars

\* A splaying payload search has brought its key to the root of a tree of
\* three nodes whose other entries differ from the one found.
C12_Witness ==
    /\ last.op = "search" /\ HasBit(last.opts, SEARCH_SPLAY)
    /\ HasBit(last.opts, SEARCH_DATA)
    /\ tree.nodes_count >= 3
    /\ heap[tree._root]._key = last.key
    /\ \A n \in Reach(heap, tree._root) \ {tree._root} :
         Entry(heap, n) # Entry(heap, tree._root)


\* The standard recursive pre-order and post-order listings of the nodes under
\* n, cut at depth fuel.
RECURSIVE PreOrderCut(_, _, _)
PreOrderCut(h, n, fuel) ==
    IF n = NULL \/ fuel = 0 THEN <<>>
    ELSE <<n>> \o PreOrderCut(h, h[n]._left_son, fuel - 1)
         \o PreOrderCut(h, h[n]._right_son, fuel - 1)

RECURSIVE PostOrderCut(_, _, _)
PostOrderCut(h, n, fuel) ==
    IF n = NULL \/ fuel = 0 THEN <<>>
    ELSE PostOrderCut(h, h[n]._left_son, fuel - 1)
         \o PostOrderCut(h, h[n]._right_son, fuel - 1) \o <<n>>

\* The sons of the nodes of the sequence level, in its order, the left son of
\* each node first when left_first and the right son first otherwise.
RECURSIVE SonsInOrder(_, _, _)
SonsInOrder(h, level, left_first) ==
    IF level = <<>> THEN <<>>
    ELSE LET n == Head(level)
             l == IF h[n]._left_son = NULL THEN <<>> ELSE <<h[n]._left_son>>
             r == IF h[n]._right_son = NULL THEN <<>> ELSE <<h[n]._right_son>>
         IN  (IF left_first THEN l \o r ELSE r \o l)
             \o SonsInOrder(h, Tail(level), left_first)

\* The level-order listing from the sequence level on, cut at depth fuel.
RECURSIVE LevelOrderCut(_, _, _, _)
LevelOrderCut(h, level, left_first, fuel) ==
    IF level = <<>> \/ fuel = 0 THEN <<>>
    ELSE level \o LevelOrderCut(h, SonsInOrder(h, level, left_first),
                                left_first, fuel - 1)

\* What a listing shows of node n in the mode of opts.
Shown(h, n, opts) ==
    IF opts = SEARCH_NODES THEN n
    ELSE IF opts = SEARCH_KEYS THEN h[n]._key
    ELSE h[n]._data

ShownAll(h, nodes, opts) == [i \in DOMAIN nodes |-> Shown(h, nodes[i], opts)]

\* How often v occurs in the sequence s.
Occurrences(s, v) == Cardinality({i \in DOMAIN s : s[i] = v})

\* A traversal in one order or direction and one mode has returned from a
\* tree that is not empty.
Traversed(op) ==
    /\ last.op = op
    /\ last.type \in DfsTypes \cup BfsTypes
    /\ last.opts \in TravModes
    /\ tree._root # NULL

\* C13: on a tree that is not empty, splay_int_dfs in any one order and
\* splay_int_bfs in any one direction, in any one mode, return an array of
\* exactly nodes_count elements in which every node appears exactly once: the
\* array shows the nodes, the keys or the payloads of the tree, each as often
\* as the tree holds it.
C13_TraversalListsEveryNodeOnce ==
    Traversed("dfs") \/ Traversed("bfs") =>
      /\ last.ret # NULL
      /\ Len(last.buf) = tree.nodes_count
      /\ \A n \in Reach(heap, tree._root) :
           Occurrences(last.buf, Shown(heap, n, last.opts)) =
             Cardinality({m \in Reach(heap, tree._root) :
                            Shown(heap, m, last.opts) =
                              Shown(heap, n, last.opts)})
      /\ \A i \in DOMAIN last.buf :
           \E n \in Reach(heap, tree._root) :
             last.buf[i] = Shown(heap, n, last.opts)

\* A traversal in key mode has returned from a tree of three nodes that holds
\* a key twice.
C13_Witness ==
    /\ Traversed("dfs") \/ Traversed("bfs")
    /\ last.opts = SEARCH_KEYS
    /\ tree.nodes_count >= 3
    /\ \E k \in EntryKeys : CountKey(heap, tree._root, k) = 2

\* The listing splay_int_dfs is asked for by type.
DfsListing(h, root, type) ==
    IF type = DFS_PRE_ORDER THEN PreOrderCut(h, root, NumSlots + 1)
    ELSE IF type = DFS_IN_ORDER THEN InOrder(h, root)
    ELSE PostOrderCut(h, root, NumSlots + 1)

\* C14: on a tree that is not empty, the array splay_int_dfs fills under
\* DFS_PRE_ORDER, DFS_IN_ORDER and DFS_POST_ORDER is the standard pre-order,
\* in-order and post-order listing; the cursor stores into every element
\* 0..nodes_count-1 exactly once and into no element outside that range.
C14_DfsIsStandardListing ==
    Traversed("dfs") =>
      /\ last.buf = ShownAll(heap, DfsListing(heap, tree._root, last.type),
                             last.opts)
      /\ Len(last.written) = tree.nodes_count
      /\ \A i \in 0..(tree.nodes_count - 1) :
           Occurrences(last.written, i) = 1

\* An in-order visit in node mode has returned from a tree of three nodes
\* whose root has no left son: the cursor steps back below the array before
\* the first store.
C14_Witness ==
    /\ Traversed("dfs")
    /\ last.type = DFS_IN_ORDER
    /\ last.opts = SEARCH_NODES
    /\ tree.nodes_count >= 3
    /\ heap[tree._root]._left_son = NULL

\* C15: on a tree that is not empty, splay_int_bfs returns the level-order
\* listing from the root in which the sons of each node are appended left
\* then right under BFS_LEFT_FIRST and right then left under BFS_RIGHT_FIRST;
\* the queue tail never passes element nodes_count-1, every slot is filled
\* before it is dequeued, and in key mode the keys returned are the keys of
\* the node-mode listing in the same order.
C15_BfsIsLevelOrder ==
    Traversed("bfs") =>
      /\ last.buf =
           ShownAll(heap,
                    LevelOrderCut(heap, <<tree._root>>,
                                  last.type = BFS_LEFT_FIRST, NumSlots + 1),
                    last.opts)
      /\ \A i \in DOMAIN last.written :
           last.written[i] <= tree.nodes_count - 1
      /\ ~last.bad
      /\ last.opts = SEARCH_KEYS =>
           last.buf =
             KeysOf(heap,
                    splay_int_bfs(heap, tree, last.type, SEARCH_NODES).buf)

\* A breadth-first visit in key mode, right son first, has returned from a
\* tree whose root has two sons with different keys.
C15_Witness ==
    /\ Traversed("bfs")
    /\ last.type = BFS_RIGHT_FIRST
    /\ last.opts = SEARCH_KEYS
    /\ heap[tree._root]._left_son # NULL
    /\ heap[tree._root]._right_son # NULL
    /\ heap[heap[tree._root]._left_son]._key
         # heap[heap[tree._root]._right_son]._key


\* How many of the bits of the set bits are set in opts.
BitsSet(opts, bits) == Cardinality({b \in bits : HasBit(opts, b)})

\* C16 as stated: a call that sets more than one of a group of mutually
\* exclusive option bits returns NULL: splay_int_search with SEARCH_DATA and
\* SEARCH_NODES, splay_int_dfs and splay_int_bfs with two orders, two
\* directions or two modes.
C16_AmbiguousOptionsRejected ==
    /\ last.op = "search"
       /\ HasBit(last.opts, SEARCH_DATA) /\ HasBit(last.opts, SEARCH_NODES)
       => last.ret = NULL
    /\ last.op \in {"dfs", "bfs"}
       /\ \/ BitsSet(last.type, DfsTypes) > 1
          \/ BitsSet(last.type, BfsTypes) > 1
          \/ BitsSet(last.opts, TravModes) > 1
       => last.ret = NULL

\* C17 as stated: a search whose options name neither SEARCH_DATA nor
\* SEARCH_NODES, for a key that is present, returns NULL and does nothing: no
\* rotation is made and every field of the tree is as before.
C17_NoModeSearchIsNoOp ==
    [][Returns("search")
       /\ ~HasBit(last'.opts, SEARCH_DATA) /\ ~HasBit(last'.opts, SEARCH_NODES)
       /\ CountKey(heap, tree._root, last'.key) > 0 =>
         /\ last'.ret = NULL
         /\ UNCHANGED <<heap, tree, alloc>>]_vars


\* C18: two searches without SEARCH_SPLAY run by two threads on the same tree,
\* with no writer, interleaved read by read: in every interleaving each search
\* returns what a single-threaded search returns, and the tree is as it was.
C18_ConcurrentPlainSearches ==
    [][/\ (\E r \in Threads : readers[r].pc # "idle") =>
            UNCHANGED <<heap, tree, alloc>>
       /\ \A r \in Threads :
            readers'[r].pc = "done" =>
              readers'[r].ret =
                splay_int_search(heap', tree', readers'[r].key,
                                 readers'[r].opts).ret]_vars

\* One thread has found its key while the other, which looks for another
\* key, is in the middle of its descent, below the root.
C18_Witness ==
    \E r \in Threads, q \in Threads :
      /\ r # q
      /\ readers[r].pc = "done" /\ readers[r].ret # NULL
      /\ readers[q].pc = "son" /\ readers[q].curr # tree._root
      /\ readers[q].key # readers[r].key


\* How many nodes of the tree hold the payload d.
CountData(h, root, d) == Cardinality({n \in Reach(h, root) : h[n]._data = d})

\* The calls of free() of kind in the sequence frees.
FreesOf(frees, kind) == {i \in DOMAIN frees : frees[i][1] = kind}

\* C20: delete_splay_int_tree with a valid handle and opts >= 0 returns 0
\* after releasing every node of the tree exactly once and the handle exactly
\* once; it releases the payload of each node exactly once if
\* DELETE_FREE_DATA is set and no payload otherwise.  With a NULL handle or
\* opts < 0 it returns -1 and releases nothing.
C20_DeleteTreeReleasesAll ==
    [][Returns("delete_tree") =>
         IF last'.handle # NULL /\ last'.opts >= 0
         THEN /\ last'.ret = 0
              /\ \A n \in Reach(heap, tree._root) :
                   Occurrences(last'.frees, <<"node", n>>) = 1
              /\ Cardinality(FreesOf(last'.frees, "node")) =
                   Cardinality(Reach(heap, tree._root))
              /\ Occurrences(last'.frees, <<"tree", last'.handle>>) = 1
              /\ Cardinality(FreesOf(last'.frees, "tree")) = 1
              /\ IF HasBit(last'.opts, DELETE_FREE_DATA)
                 THEN /\ \A n \in Reach(heap, tree._root) :
                           Occurrences(last'.frees, <<"data", heap[n]._data>>)
                             = CountData(heap, tree._root, heap[n]._data)
                      /\ Cardinality(FreesOf(last'.frees, "data")) =
                           Cardinality(Reach(heap, tree._root))
                 ELSE FreesOf(last'.frees, "data") = {}
         ELSE /\ last'.ret = -1
              /\ last'.frees = <<>>
              /\ UNCHANGED <<heap, tree, alloc>>]_vars

\* The deletion of a tree of three nodes with two different payloads has
\* released the payloads.
C20_Witness ==
    /\ last.op = "delete_tree" /\ last.ret = 0
    /\ HasBit(last.opts, DELETE_FREE_DATA)
    /\ Cardinality(FreesOf(last.frees, "node")) >= 3
    /\ Cardinality({last.frees[i][2] : i \in FreesOf(last.frees, "data")}) >= 2


\* The number of father links from n up to the root of its tree, counted up
\* to fuel.
RECURSIVE DepthCut(_, _, _)
DepthCut(h, n, fuel) ==
    IF h[n]._father = NULL \/ fuel = 0 THEN 0
    ELSE 1 + DepthCut(h, h[n]._father, fuel - 1)

Depth(h, n) == DepthCut(h, n, NumSlots)

\* The number of calls of _spli_splay the loop
\* while (top != curr) curr = _spli_splay(curr); makes, counted up to
\* fuel + 1.
RECURSIVE SplaySteps(_, _, _, _)
SplayStepsNext(top, s, fuel) == 1 + SplaySteps(s.h, top, s.ret, fuel - 1)

SplaySteps(h, top, curr, fuel) ==
    IF top = curr THEN 0
    ELSE IF fuel = 0 THEN 1
    ELSE SplayStepsNext(top, _spli_splay(h, curr), fuel)

\* The full-splay loop of curr up to top ends within as many steps as curr
\* is deep.
SplayBounded(h, top, curr) ==
    SplaySteps(h, top, curr, Depth(h, curr)) <= Depth(h, curr)

\* The loop of _spli_join, where it is entered.
JoinBounded(h, left_root, right_root) ==
    left_root = NULL \/ right_root = NULL
    \/ SplayBounded(h, left_root, _spli_max_key_son(h, left_root))

\* The loop of the join splay_int_delete makes, l being the outcome of
\* splaying the target node.
JoinOfCuts(left_sub, c2) == JoinBounded(c2.h, left_sub, c2.ret)

JoinAfterCut(c1, node) ==
    JoinOfCuts(c1.ret, _spli_cut_right_subtree(c1.h, node))

JoinAfterSplay(l) == JoinAfterCut(_spli_cut_left_subtree(l.h, l.ret), l.ret)

\* The two loops of a delete that finds to_delete.
DeleteBounded(h, t, to_delete) ==
    /\ SplayBounded(h, t._root, to_delete)
    /\ JoinAfterSplay(SplayLoop(h, t._root, to_delete))

\* The loop of an insert of new_key into new_node, h being the heap after
\* _spli_create_node.
InsertBounded(h, t, new_node, new_key) ==
    SplayBounded(InsertAttach(h, InsertLoop(h, t._root, NULL, new_key),
                              new_node, new_key),
                 t._root, new_node)

\* C19: with every allocation succeeding, no call of splay_int_insert,
\* splay_int_delete, splay_int_search, splay_int_dfs, splay_int_bfs or
\* delete_splay_int_tree fails to end: each full-splay loop (of the new node
\* in insert, of the target in delete and in a splaying search, of left_max
\* in _spli_join) ends within as many steps as the splayed node is deep, a
\* traversal makes at most nodes_count stores and the destruction at most two
\* calls of free() for each node and two more.
C19_EveryCallTerminates ==
    [][/\ ~hung'
       /\ Returns("insert") /\ last'.ret # 0 /\ tree._root # NULL =>
            \A n \in alloc' \ alloc :
              InsertBounded(_spli_create_node(heap, n, last'.key, last'.data),
                            tree, n, last'.key)
       /\ Returns("delete") /\ last'.ret = 1 =>
            DeleteBounded(heap, tree,
                          _spli_search_node(heap, tree, last'.key))
       /\ Returns("search") /\ HasBit(last'.opts, SEARCH_SPLAY)
          /\ _spli_search_node(heap, tree, last'.key) # NULL =>
            SplayBounded(heap, tree._root,
                         _spli_search_node(heap, tree, last'.key))
       /\ Returns("dfs") \/ Returns("bfs") =>
            Len(last'.written) <= tree.nodes_count
       /\ Returns("delete_tree") =>
            Len(last'.frees) <= 2 * tree.nodes_count + 2]_vars

\* A delete has returned from a tree of four nodes after splaying its target
\* and joining two subtrees, the left one of two nodes, and no call has
\* failed to end.
C19_Witness ==
    /\ last.op = "delete" /\ last.ret = 1
    /\ tree.nodes_count = NumSlots - 1
    /\ heap[tree._root]._left_son # NULL
    /\ heap[tree._root]._right_son # NULL
    /\ ~hung


\* The slots that a link of node n names.
LinksOf(h, n) == {h[n]._father, h[n]._left_son, h[n]._right_son} \ {NULL}

\* The number of nodes under n, each counted as often as a path leads to it,
\* cut at depth fuel.
RECURSIVE PathsCut(_, _, _)
PathsCut(h, n, fuel) ==
    IF n = NULL \/ fuel = 0 THEN 0
    ELSE 1 + PathsCut(h, h[n]._left_son, fuel - 1)
           + PathsCut(h, h[n]._right_son, fuel - 1)

\* C23: at every call boundary, after any sequence of inserts, deletes and
\* searches, the father and son links agree: the root has no father, n is a
\* son of m exactly if m is the father of n, no node is reached by two paths,
\* and no remaining node names the node a delete has freed.
C23_LinksAgree ==
    /\ tree._root # NULL => heap[tree._root]._father = NULL
    /\ \A n \in alloc, m \in alloc :
         (heap[m]._left_son = n \/ heap[m]._right_son = n)
           <=> heap[n]._father = m
    /\ \A m \in alloc :
         heap[m]._left_son # NULL => heap[m]._left_son # heap[m]._right_son
    /\ Reach(heap, tree._root) = alloc
    /\ PathsCut(heap, tree._root, NumSlots + 1) = Cardinality(alloc)
    /\ \A n \in alloc : LinksOf(heap, n) \subseteq alloc
    /\ last.op = "delete" /\ last.freed_node # NULL =>
         /\ tree._root # last.freed_node
         /\ \A n \in alloc : last.freed_node \notin LinksOf(heap, n)

\* A delete has freed a node of a tree of four nodes, and the root of what is
\* left has a son that has a son.
C23_Witness ==
    /\ last.op = "delete" /\ last.freed_node # NULL
    /\ Cardinality(alloc) = NumSlots - 1
    /\ \E n \in alloc, m \in alloc :
         /\ heap[n]._father = tree._root
         /\ heap[m]._father = n


\* C29: splay_int_insert on a tree that is not empty and splay_int_search,
\* splaying or not, leave tree->_root as it was: the key and the payload of
\* the call are moved into that slot.  tree->_root changes only on an insert
\* into an empty tree and on a successful delete, and a successful delete
\* frees the slot that was tree->_root when it was called.
C29_RootSlotStable ==
    [][/\ Returns("insert") /\ tree._root # NULL => tree'._root = tree._root
       /\ Returns("insert") /\ last'.ret # 0 =>
            /\ heap'[tree'._root]._key = last'.key
            /\ heap'[tree'._root]._data = last'.data
       /\ Returns("search") =>
            /\ tree'._root = tree._root
            /\ HasBit(last'.opts, SEARCH_SPLAY) /\ last'.ret # NULL =>
                 heap'[tree'._root]._key = last'.key
       /\ tree'._root # tree._root =>
            \/ Returns("insert") /\ tree._root = NULL /\ last'.ret # 0
            \/ Returns("delete") /\ last'.ret = 1
       /\ Returns("delete") /\ last'.ret = 1 =>
            /\ last'.freed_node = tree._root
            /\ tree'._root # tree._root]_vars

\* A successful insert has returned with a tree of four nodes: its key is in
\* the root slot and a node under the root holds another key.
C29_Witness ==
    /\ last.op = "insert" /\ last.ret = NumSlots
    /\ heap[tree._root]._key = last.key
    /\ \E n \in alloc : heap[n]._father # NULL /\ heap[n]._key # last.key


\* C30: among the entries with equal keys the in-order sequence lists the
\* one inserted later first, after any sequence of inserts, splaying searches
\* and deletes: a new entry is placed before every entry with its key, and
\* no rotation or join exchanges two entries.
C30_EqualKeysNewestFirst ==
    LET entries == InOrderEntries(heap, tree._root)
    IN  \A i \in DOMAIN entries, j \in DOMAIN entries :
          i < j /\ entries[i][1] = entries[j][1] =>
            entries[i][2] > entries[j][2]

\* A tree holds one key three times after MaxStamp inserts and at least one
\* delete, and a splaying search has just found a key.
C30_Witness ==
    /\ \E k \in Keys : CountKey(heap, tree._root, k) >= 3
    /\ last.op = "search" /\ HasBit(last.opts, SEARCH_SPLAY)
    /\ last.ret # NULL
    /\ Newest = MaxStamp


\* A rotation at node with the son pivot: the in-order entries and the nodes
\* of the tree are as before, node has the father it had and that father the
\* sons it had, and the former entry of pivot is in the slot of node.
RotationKeeps(node, pivot) ==
    /\ InOrderEntries(heap', tree'._root) = InOrderEntries(heap, tree._root)
    /\ Reach(heap', tree'._root) = Reach(heap, tree._root)
    /\ tree' = tree
    /\ heap'[node]._father = heap[node]._father
    /\ heap[node]._father # NULL =>
         /\ heap'[heap[node]._father]._left_son =
              heap[heap[node]._father]._left_son
         /\ heap'[heap[node]._father]._right_son =
              heap[heap[node]._father]._right_son
    /\ Entry(heap', node) = Entry(heap, pivot)

\* C24: _spli_right_rotation(node) and _spli_left_rotation(node), on a node
\* whose pivot son (the left, respectively the right one) exists, leave the
\* in-order sequence of (key, payload) pairs and the set of nodes unchanged,
\* leave node where it was under its father, and move the former key and
\* payload of the pivot son into the slot of node.
C24_RotationsKeepOrder ==
    [][/\ Returns("right_rotation") =>
            RotationKeeps(last'.node, heap[last'.node]._left_son)
       /\ Returns("left_rotation") =>
            RotationKeeps(last'.node, heap[last'.node]._right_son)]_vars

\* A rotation has been made at a node that is not the root, in a tree of
\* three nodes with different entries.
C24_Witness ==
    /\ last.op \in {"right_rotation", "left_rotation"}
    /\ heap[last.node]._father # NULL
    /\ Cardinality(alloc) >= 3
    /\ Cardinality({Entry(heap, n) : n \in alloc}) >= 3


\* The conditions of the four grandparent cases of _spli_splay.
Case2Holds(h, node, father_node, grand_node) ==
    h[father_node]._left_son = node /\ h[grand_node]._left_son = father_node

Case3Holds(h, node, father_node, grand_node) ==
    h[father_node]._right_son = node /\ h[grand_node]._right_son = father_node

Case4Holds(h, node, father_node, grand_node) ==
    h[father_node]._left_son = node /\ h[grand_node]._right_son = father_node

Case5Holds(h, node, father_node, grand_node) ==
    h[father_node]._right_son = node /\ h[grand_node]._left_son = father_node

\* The heaps the second, third and fourth if of _spli_splay are tested on.
AfterCase2(h, n, f, g) == SplayCase2(h, n, f, g)
AfterCase3(h, n, f, g) == SplayCase3(AfterCase2(h, n, f, g), n, f, g)
AfterCase4(h, n, f, g) == SplayCase4(AfterCase3(h, n, f, g), n, f, g)

\* The cases whose if is taken in _spli_splay(n) on the heap h.
CasesTaken(h, n, f, g) ==
    {c \in 2..5 :
       \/ c = 2 /\ Case2Holds(h, n, f, g)
       \/ c = 3 /\ Case3Holds(AfterCase2(h, n, f, g), n, f, g)
       \/ c = 4 /\ Case4Holds(AfterCase3(h, n, f, g), n, f, g)
       \/ c = 5 /\ Case5Holds(AfterCase4(h, n, f, g), n, f, g)}

\* The two rotations of case c, on the heap h its if is tested on, each have
\* their pivot son.
PivotsExist(h, c, f, g) ==
    IF c = 2
    THEN /\ h[g]._left_son # NULL
         /\ _spli_right_rotation(h, g)[g]._left_son # NULL
    ELSE IF c = 3
    THEN /\ h[g]._right_son # NULL
         /\ _spli_left_rotation(h, g)[g]._right_son # NULL
    ELSE IF c = 4
    THEN /\ h[f]._left_son # NULL
         /\ _spli_right_rotation(h, f)[g]._right_son # NULL
    ELSE /\ h[f]._right_son # NULL
         /\ _spli_left_rotation(h, f)[g]._left_son # NULL

\* The heap the if of case c is tested on.
HeapOfCase(h, c, n, f, g) ==
    IF c = 2 THEN h
    ELSE IF c = 3 THEN AfterCase2(h, n, f, g)
    ELSE IF c = 4 THEN AfterCase3(h, n, f, g)
    ELSE AfterCase4(h, n, f, g)

\* The slot ret holds after the step what n held before it, up higher.
Climbed(n, ret, up) ==
    /\ last'.ret = ret
    /\ Entry(heap', ret) = Entry(heap, n)
    /\ Depth(heap', ret) = Depth(heap, n) - up
    /\ InOrderEntries(heap', tree'._root) = InOrderEntries(heap, tree._root)

ZigStep(n, f) ==
    /\ heap[f]._left_son = n \/ heap[f]._right_son = n
    /\ Climbed(n, f, 1)

ZigZigStep(n, f, g) ==
    /\ Cardinality(CasesTaken(heap, n, f, g)) = 1
    /\ \A c \in CasesTaken(heap, n, f, g) :
         PivotsExist(HeapOfCase(heap, c, n, f, g), c, f, g)
    /\ Climbed(n, g, 2)

\* C25: one call of _spli_splay(node) on a node that is not the root takes
\* exactly one case: the zig case if the father is the root, else exactly one
\* of the four grandparent cases, each of which is tested on the heap the
\* earlier ones have left; every rotation it calls has its pivot son; the slot
\* it returns (the father for zig, else the grandfather) then holds the
\* former key and payload of node, one respectively two links higher than
\* node was.
C25_SplayTakesOneCase ==
    [][Returns("splay") /\ heap[last'.node]._father # NULL =>
         IF heap[heap[last'.node]._father]._father = NULL
         THEN ZigStep(last'.node, heap[last'.node]._father)
         ELSE ZigZigStep(last'.node, heap[last'.node]._father,
                         heap[heap[last'.node]._father]._father)]_vars

\* A splay step has been made from a node that had a grandfather, and has
\* returned the slot of that grandfather.
C25_Witness ==
    /\ last.op = "splay"
    /\ last.grand # NULL
    /\ last.ret = last.grand


\* The place of node n in the sequence nodes (0 if it is not in it).
PlaceOf(nodes, n) ==
    IF \E i \in DOMAIN nodes : nodes[i] = n
    THEN CHOOSE i \in DOMAIN nodes : nodes[i] = n
    ELSE 0

\* The sequence s without its p-th element.
Without(s, p) ==
    [i \in 1..(Len(s) - 1) |-> IF i < p THEN s[i] ELSE s[i + 1]]

\* The left root of the join of a delete has no right son when the right
\* subtree is attached to it; l is the outcome of splaying the target.
JoinedOntoFree(j, left_root) == j.h[left_root]._right_son = NULL

JoinOntoOfCuts(left_sub, c2) ==
    left_sub = NULL \/ c2.ret = NULL
    \/ JoinedOntoFree(SplayLoop(c2.h, left_sub,
                                 _spli_max_key_son(c2.h, left_sub)), left_sub)

JoinOntoAfterCut(c1, node) ==
    JoinOntoOfCuts(c1.ret, _spli_cut_right_subtree(c1.h, node))

JoinOntoAfterSplay(l) ==
    JoinOntoAfterCut(_spli_cut_left_subtree(l.h, l.ret), l.ret)

\* What a delete leaves of the tree l.h in which the target l.ret has been
\* splayed to the root: the root of the left subtree with the right subtree
\* as its right son, not changed below its root, or the root of the right
\* subtree if there is no left subtree.
JoinedAsSplayed(l) ==
    IF l.h[l.ret]._left_son # NULL
    THEN /\ tree'._root = l.h[l.ret]._left_son
         /\ Entry(heap', tree'._root) =
              Entry(l.h, _spli_max_key_son(l.h, l.h[l.ret]._left_son))
         /\ heap'[tree'._root]._right_son = l.h[l.ret]._right_son
         /\ \A n \in Reach(l.h, l.h[l.ret]._right_son) :
              /\ Entry(heap', n) = Entry(l.h, n)
              /\ heap'[n]._left_son = l.h[n]._left_son
              /\ heap'[n]._right_son = l.h[n]._right_son
    ELSE tree'._root = l.h[l.ret]._right_son

\* The delete of the node at place p of the in-order sequence entries.
DeletedAtPlace(entries, p) ==
    /\ p > 0
    /\ InOrderEntries(heap', tree'._root) = Without(entries, p)
    /\ IF p > 1
       THEN /\ tree'._root # NULL
            /\ Entry(heap', tree'._root) = entries[p - 1]
            /\ InOrderEntries(heap', heap'[tree'._root]._right_son) =
                 [i \in 1..(Len(entries) - p) |-> entries[p + i]]
       ELSE /\ tree'._root = NULL <=> Len(entries) = 1
            /\ tree'._root # NULL => heap'[tree'._root]._father = NULL

\* The example: inserts of 5, 3, 8, 1, 4, 7, 9 into an empty tree, the i-th
\* into slot i with payload i, and then the delete of 5.
ExampleKeys == <<5, 3, 8, 1, 4, 7, 9>>

RECURSIVE ExampleInserts(_, _, _)
ExampleInserted(i, r) == ExampleInserts(i + 1, r.h, r.t)

ExampleInserts(i, h, t) ==
    IF i > Len(ExampleKeys) THEN [h |-> h, t |-> t]
    ELSE ExampleInserted(i, splay_int_insert(h, t, i, ExampleKeys[i], i))

ExampleBuilt ==
    ExampleInserts(1, [n \in 1..Len(ExampleKeys) |-> FreeSlot],
                   create_splay_int_tree)

ExampleDeleted == splay_int_delete(ExampleBuilt.h, ExampleBuilt.t, 5, 0)

\* What the example gives, in the build of the state: it starts from an
\* empty tree and is computed in the states where the tree is empty.
ExampleHolds ==
    tree._root = NULL =>
      /\ ExampleDeleted.ret = 1
      /\ ExampleDeleted.h[ExampleDeleted.t._root]._key = 4
      /\ KeysOf(ExampleDeleted.h,
                InOrderCut(ExampleDeleted.h, ExampleDeleted.t._root,
                           Len(ExampleKeys) + 1))
           = <<1, 3, 4, 7, 8, 9>>

\* C26 as it is stated: after a successful splay_int_delete, if the deleted
\* entry had an in-order predecessor the new root holds the key and the payload of that
\* predecessor (the largest of the left subtree of the splayed target) and
\* its right subtree is the former right subtree of the target; if it had
\* none, the new root is the root of that right subtree, or the tree is
\* empty.  The node joined onto has no right son when the right subtree is
\* attached, and no node is dropped.  Inserts of 5, 3, 8, 1, 4, 7, 9 and the
\* delete of 5 leave the root key 4 and the in-order keys 1, 3, 4, 7, 8, 9.
C26_PredecessorAlwaysAtRoot ==
    [][/\ ExampleHolds
       /\ Returns("delete") /\ last'.ret = 1 =>
            /\ DeletedAtPlace(
                 InOrderEntries(heap, tree._root),
                 PlaceOf(InOrder(heap, tree._root),
                         _spli_search_node(heap, tree, last'.key)))
            /\ JoinedAsSplayed(
                 SplayLoop(heap, tree._root,
                           _spli_search_node(heap, tree, last'.key)))
            /\ JoinOntoAfterSplay(
                 SplayLoop(heap, tree._root,
                           _spli_search_node(heap, tree, last'.key)))
            /\ Reach(heap', tree'._root) =
                 Reach(heap, tree._root) \ {last'.freed_node}]_vars

\* What a delete leaves of the tree l.h in which the target l.ret has been
\* splayed to the root, by the rule of _spli_join: with both subtrees, the
\* root of the left one, holding the largest entry of the left one, with the
\* right one as its right son, not changed below its root; with one subtree
\* only, the root of that subtree, the subtree not changed; else nothing.
SameBelow(h, top) ==
    \A n \in Reach(h, top) :
      /\ Entry(heap', n) = Entry(h, n)
      /\ heap'[n]._left_son = h[n]._left_son
      /\ heap'[n]._right_son = h[n]._right_son

JoinedByRule(l) ==
    IF l.h[l.ret]._left_son # NULL /\ l.h[l.ret]._right_son # NULL
    THEN /\ tree'._root = l.h[l.ret]._left_son
         /\ Entry(heap', tree'._root) =
              Entry(l.h, _spli_max_key_son(l.h, l.h[l.ret]._left_son))
         /\ heap'[tree'._root]._right_son = l.h[l.ret]._right_son
         /\ SameBelow(l.h, l.h[l.ret]._right_son)
    ELSE IF l.h[l.ret]._left_son # NULL
    THEN /\ tree'._root = l.h[l.ret]._left_son
         /\ SameBelow(l.h, l.h[l.ret]._left_son)
    ELSE /\ tree'._root = l.h[l.ret]._right_son
         /\ SameBelow(l.h, l.h[l.ret]._right_son)

\* The delete of the node at place p of the in-order sequence entries, by
\* the rule of _spli_join.
DeletedAtPlaceByRule(entries, p) ==
    /\ p > 0
    /\ InOrderEntries(heap', tree'._root) = Without(entries, p)
    /\ tree'._root = NULL <=> Len(entries) = 1
    /\ tree'._root # NULL => heap'[tree'._root]._father = NULL
    /\ 1 < p /\ p < Len(entries) =>
         /\ Entry(heap', tree'._root) = entries[p - 1]
         /\ InOrderEntries(heap', heap'[tree'._root]._right_son) =
              [i \in 1..(Len(entries) - p) |-> entries[p + i]]
    /\ 1 < p /\ p = Len(entries) =>
         /\ heap'[tree'._root]._key <= entries[p - 1][1]
         /\ InOrderEntries(heap', tree'._root) =
              [i \in 1..(p - 1) |-> entries[i]]

SplayedByRule(l) == JoinedByRule(l) /\ JoinOntoAfterSplay(l)

\* The delete of the node to_delete, by the rule of _spli_join.
DeletedByRule(to_delete) ==
    /\ DeletedAtPlaceByRule(InOrderEntries(heap, tree._root),
                            PlaceOf(InOrder(heap, tree._root), to_delete))
    /\ SplayedByRule(SplayLoop(heap, tree._root, to_delete))

\* C26, amended: after a successful splay_int_delete, if the splayed target
\* had both subtrees, the new root holds the key and the payload of the
\* in-order predecessor of the deleted entry (the largest of the left
\* subtree) and its right subtree is the former right subtree of the target;
\* if it had one subtree only, the new root is the root of that subtree,
\* which is left as it was (with no right subtree the predecessor is not
\* brought to the root); if it had none, the tree is empty.  The node joined
\* onto has no right son when the right subtree is attached, and no node is
\* dropped.  Inserts of 5, 3, 8, 1, 4, 7, 9 and the delete of 5 leave the
\* root key 4 and the in-order keys 1, 3, 4, 7, 8, 9.
C26_DeleteJoinsByRule ==
    [][/\ ExampleHolds
       /\ Returns("delete") /\ last'.ret = 1 =>
            /\ DeletedByRule(_spli_search_node(heap, tree, last'.key))
            /\ Reach(heap', tree'._root) =
                 Reach(heap, tree._root) \ {last'.freed_node}]_vars

\* A delete has joined two subtrees: the root of what is left has a left son
\* and a right son, whose key is not under the deleted one.
C26_Witness ==
    /\ last.op = "delete" /\ last.ret = 1
    /\ tree._root # NULL
    /\ heap[tree._root]._right_son # NULL
    /\ heap[tree._root]._left_son # NULL
    /\ heap[tree._root]._key <= last.key
    /\ heap[heap[tree._root]._right_son]._key >= last.key


\* C21: when the reallocarray that shrinks the array of a splay_int_bfs in
\* key mode fails, the call returns NULL and has released the buffer it
\* allocated: no buffer the call allocated is still allocated.
C21_ShrinkFailureReleasesBuffer ==
    last.op = "bfs" /\ last.nomem /\ tree._root # NULL
    /\ HasBit(last.opts, SEARCH_KEYS) =>
      /\ last.ret = NULL
      /\ last.leaked = {}

\* C22: when the calloc of the splay_int_bfs inside delete_splay_int_tree
\* fails on a tree that is not empty, the call ends without a read or a
\* free() through the missing array and leaves heap, handle and allocation
\* as they were.
C22_DestroyAbortsWithoutBuffer ==
    [][Returns("delete_tree") /\ last'.nomem =>
         /\ ~last'.bad
         /\ last'.frees = <<>>
         /\ ~hung'
         /\ UNCHANGED <<heap, tree, alloc>>]_vars


\* The sign of an int.
Sign(x) == IF x > 0 THEN 1 ELSE IF x < 0 THEN -1 ELSE 0

\* The mathematical comparison of two keys.
Compare(a, b) == IF a > b THEN 1 ELSE IF a < b THEN -1 ELSE 0

\* C27: the difference curr->_key - key of the descents has the sign of the
\* mathematical comparison of the two keys for every pair of int keys, so
\* that with keys near INT_MIN and near INT_MAX the keys in order never
\* decrease and every key in the tree is found by the descent of the search.
C27_DifferenceComparesKeys ==
    /\ \A a, b \in WideKeys : Sign(Sub32(a, b)) = Compare(a, b)
    /\ \A i, j \in DOMAIN InOrderKeys : i < j => InOrderKeys[i] <= InOrderKeys[j]
    /\ \A n \in Reach(heap, tree._root) :
         _spli_search_node(heap, tree, heap[n]._key) # NULL


\* Thread r returns the wrong answer: what its search has returned is not
\* what the tree holds for its key.
WrongAnswer(r) ==
    /\ readers[r].pc = "done"
    /\ readers[r].ret #
         splay_int_search(heap, tree, readers[r].key, readers[r].opts).ret

\* C28: a search without SEARCH_SPLAY gives a wrong answer only when it has
\* run while a call of splay_int_insert or of splay_int_search with
\* SEARCH_SPLAY was running on the tree: a search that ends without having
\* met such a call returns what the tree holds for its key, and the writes
\* of a call, made one by one, leave the heap the call leaves when it runs
\* alone.  (That a search that meets such a call can return absent for a key
\* that is in the tree all along is C28_Witness.)
C28_WrongOnlyWhenRaced ==
    [][/\ \A r \in Threads :
            readers[r].pc # "done" /\ readers'[r].pc = "done"
            /\ r \notin writer'.raced =>
              readers'[r].ret =
                splay_int_search(heap', tree', readers'[r].key,
                                 readers'[r].opts).ret
       /\ writer.pc = "idle" /\ writer'.pc = "run" =>
            After(heap, writer'.todo) =
              IF writer'.call.op = "insert"
              THEN splay_int_insert(heap, tree,
                                    CHOOSE n \in alloc' \ alloc : TRUE,
                                    writer'.call.key, writer'.call.data).h
              ELSE splay_int_search(heap, tree, writer'.call.key,
                                    writer'.call.opts).h]_vars

\* The writer has returned from its call; a search that ran meanwhile has
\* returned absent, or the payload of another key, for a key that is in the
\* tree and that no call has inserted since the search began (no call of
\* this client removes a key): the key was in the tree before, during and
\* after the call of the writer.
C28_Witness ==
    /\ writer.pc = "idle"
    /\ last.op \in {"insert", "search"}
    /\ \E r \in writer.raced :
         /\ readers[r].pc = "done"
         /\ readers[r].key \notin writer.added
         /\ _spli_search_node(heap, tree, readers[r].key) # NULL
         /\ \/ readers[r].ret = NULL
            \/ /\ HasBit(readers[r].opts, SEARCH_DATA)
               /\ readers[r].ret # EntryData(readers[r].key)

====
